---------------------------- MODULE Spec2Model ----------------------------
(***************************************************************************)
(* rmp-eval: the orchestrator (main), the sender, receiver and live-report *)
(* threads of source/main.cpp, with the audit entry point of               *)
(* source/config.cpp.  Times are nanoseconds of CLOCK_MONOTONIC.           *)
(***************************************************************************)
EXTENDS Integers, Sequences, FiniteSets, TLC

(***************************************************************************)
(* Program constants.                                                      *)
(***************************************************************************)
\* main.cpp:90
NanoPerMicro == 1000
\* Evaluator::NanoPerSec (header); main.cpp:50-53 and 100-103 use it as 10^9
NanoPerSec == 1000000000
\* main.cpp:89, std::numeric_limits<uint64_t>::max(); here the largest
\* integer TLC represents.  No counter of the model reaches it.
RunIndefinitely == 2147483647
\* main.cpp:357-361
NoNicSelected == "NoNicSelected"
DefaultSendSleepMicroseconds == 1000
DefaultSendPriority == 42
DefaultReceivePriority == 45
AutomaticBucketWidth == 0

(***************************************************************************)
(* Bounds of the model.                                                    *)
(***************************************************************************)
\* CPUs of the host: sysconf(_SC_NPROCESSORS_CONF), hardware_concurrency()
CpuCount == 2
\* iterations explored of a run with Iterations = RunIndefinitely
MaxIndex == 3
\* CLOCK_MONOTONIC when main starts: 1.3 ms before the clock's second rolls
ClockStart == 998700000
\* the clock is not advanced by a read beyond this (a sleep may pass it)
MaxClock == 1003000000
\* longest text enumerated character by character for a CPU list file
MaxTextLen == 3

\* how far CLOCK_MONOTONIC may have moved between two reads
ClockSteps == {0, 2000000, 4300000}

\* values the command line may carry (commandlineparser.h is not in the
\* sources: every value of the option's type is accepted, spec section 6)
IterationInputs == {0, 1, 2, 3, RunIndefinitely}
SendSleepInputs == {0, DefaultSendSleepMicroseconds}
BucketWidthInputs == {AutomaticBucketWidth, 50}
NicInputs == {NoNicSelected, "eth0"}
CpuInputs == {-1, CpuCount - 1, CpuCount}
EuidInputs == {0, 1000}

VARIABLES
  \* ---- environment
  now,            \* CLOCK_MONOTONIC, ns
  euid,           \* geteuid()
  inFlight,       \* frames sent by Send() and not yet taken by Receive()
  dmaLatencyOpen, \* /dev/cpu_dma_latency is held open by the process
  \* ---- main
  mainPc, exitCode, returned,
  params, noConfig, onlyConfig, showHelp, showVersion,
  parsed,         \* ParseArguments: "none" | "ok" | "error"
  mainLog,        \* history: what main has done so far, in order
  audit,          \* ReportSystemConfiguration: "none" | "invalid" | "done"
  mlock,          \* mlockall: "none" | "ok" | "failed"
  latencyFd,      \* FileDescriptor::fd of latencyFd (-1: none)
  tester,         \* the EthercatNicTest exists
  finalRender,    \* the final PrintReport of main is done
  \* ---- shared flags
  testRunning, liveReport, reportMutex,
  \* ---- sender thread
  sPc, sIndex, sNext, sCurrent, sPrevious, sRecord, sError,
  sConfigured,    \* what ConfigureThisThread did to the sender thread:
                  \*   "no" | "ok" | "sched_failed" | "affinity_failed"
  sOldNext,       \* history: next when the iteration's clock sample was taken
  sNext0,         \* history: next as first read from the clock
  sendData,       \* the indexes AddObservation was called with
  \* ---- receiver thread
  rPc, rIndex, rPrevious, rRecord, rError, rFailed,
  rConfigured,    \* what ConfigureThisThread did to the receiver thread
  receiveData,
  \* ---- report thread
  repPc,
  \* ---- the audit, ReportSystemConfiguration of config.cpp
  aPc,            \* where the audit is: "idle" | "system" | "core" | "nic"
                  \*   | "dependent" | "done"
  aIndex,         \* checks of the current section evaluated so far
  checkContext,   \* CheckContext: optional cpu, optional nic
  host,           \* what a check reads past the data source
  dataSource,     \* answers of the data source to the check evaluated last
  result,         \* the CheckResult evaluated last
  cpuSet,         \* the std::set<int> CoreIsolated parsed last
  presence,       \* status of NicPresent in this audit ("none": not run)
  emitted         \* kinds of the results printed so far, in order

envVars == <<now, euid, inFlight>>
optVars == <<params, noConfig, onlyConfig, showHelp, showVersion, parsed>>
retVars == <<returned, latencyFd, dmaLatencyOpen>>
doneVars == <<audit, mlock, tester, finalRender>>
mainVars == <<mainPc, exitCode, retVars, optVars, doneVars, mainLog>>
flagVars == <<testRunning, liveReport, reportMutex>>
senderVars == <<sPc, sIndex, sNext, sCurrent, sPrevious, sRecord, sError,
                sConfigured, sOldNext, sNext0, sendData>>
receiverVars == <<rPc, rIndex, rPrevious, rRecord, rError, rFailed,
                  rConfigured, receiveData>>
threadVars == <<flagVars, senderVars, receiverVars, repPc>>
auditVars == <<aPc, aIndex, checkContext, host, dataSource, result, cpuSet,
               presence, emitted>>
vars == <<envVars, mainVars, threadVars, auditVars>>

(***************************************************************************)
(* Timing primitives.                                                      *)
(***************************************************************************)
\* Evaluator::ToEpoch: seconds and nanoseconds as one nanosecond value
ToEpoch(time) == time.tv_sec * NanoPerSec + time.tv_nsec

\* clock_gettime(CLOCK_MONOTONIC, &ts) at clock value t
ClockGetTime(t) == [tv_sec |-> t \div NanoPerSec, tv_nsec |-> t % NanoPerSec]

AddNanoToTimespecNoCarry(time, nanos) ==
  [time EXCEPT !.tv_nsec = (time.tv_nsec + nanos) % NanoPerSec]

\* main.cpp:92-104
AddNanoToTimespec(time, nanos) ==
  LET nanoEpoch == ToEpoch(time) + nanos
  IN  [tv_sec |-> nanoEpoch \div NanoPerSec, tv_nsec |-> nanoEpoch % NanoPerSec]

\* a read of the monotonic clock returns t: the clock has moved on by one of
\* ClockSteps since it was last observed
ClockReads(t) ==
  /\ t \in {now + d : d \in ClockSteps}
  /\ t <= MaxClock \/ t = now

Max(a, b) == IF a >= b THEN a ELSE b

(***************************************************************************)
(* Worker loop helpers.                                                    *)
(***************************************************************************)
\* params.Iterations - 1 in uint64_t: 0 - 1 wraps to the maximum
LastIndex(iterations) ==
  IF iterations = 0 THEN RunIndefinitely ELSE iterations - 1

\* main.cpp:118 and 168, the loop condition
KeepRunning(running, index, iterations) ==
  running /\ (iterations = RunIndefinitely \/ index < iterations)

RecordTimeExceptLast(index, iterations) == index # LastIndex(iterations)

RecordTimeFirstOnly(index, iterations) == index # 0

\* main.cpp:121 and 171
RecordTime(index, iterations) ==
  index # 0 /\ index # LastIndex(iterations)

\* ConfigureThisThread: the outcomes pthread_setschedparam and
\* pthread_setaffinity_np can have.  A core that is not a CPU of the host
\* gives an empty or invalid mask, which pthread_setaffinity_np rejects.
ConfiguredPriorityOnly(outcome) == outcome # "sched_failed"

\* main.cpp:73-76 and 82-86: a call that fails makes ConfigureThisThread
\* throw; it returns only when neither did
ConfiguredBoth(outcome) == outcome = "ok"

ConfigureThisThread(priority, cpuCore) ==
  {"sched_failed", "affinity_failed"} \cup
  (IF cpuCore \in 0 .. (CpuCount - 1) THEN {"ok"} ELSE {})

NicMode == params.NicName # NoNicSelected

(***************************************************************************)
(* Init: main.cpp:354-381, the locals of main after their initialisers,    *)
(* and the statics of main.cpp:40-41.                                      *)
(***************************************************************************)
DefaultCpuCore == Max(CpuCount - 1, 0)

Init ==
  /\ now = ClockStart
  /\ euid \in EuidInputs
  /\ inFlight = 0
  /\ dmaLatencyOpen = FALSE
  /\ mainPc = "parse"
  /\ exitCode = 0
  /\ returned = 0
  /\ params = [NicName |-> NoNicSelected,
               Iterations |-> RunIndefinitely,
               SendSleep |-> DefaultSendSleepMicroseconds,
               SendPriority |-> DefaultSendPriority,
               ReceivePriority |-> DefaultReceivePriority,
               SendCpu |-> DefaultCpuCore,
               ReceiveCpu |-> DefaultCpuCore,
               BucketWidth |-> AutomaticBucketWidth]
  /\ noConfig = FALSE
  /\ onlyConfig = FALSE
  /\ showHelp = FALSE
  /\ showVersion = FALSE
  /\ parsed = "none"
  /\ mainLog = <<>>
  /\ audit = "none"
  /\ mlock = "none"
  /\ latencyFd = -1
  /\ tester = FALSE
  /\ finalRender = FALSE
  /\ testRunning = TRUE
  /\ liveReport = TRUE
  /\ reportMutex = "free"
  /\ sPc = "unspawned"
  /\ sIndex = 0
  /\ sNext = [tv_sec |-> 0, tv_nsec |-> 0]
  /\ sCurrent = 0
  /\ sPrevious = 0
  /\ sRecord = TRUE
  /\ sError = FALSE
  /\ sConfigured = "no"
  /\ sOldNext = 0
  /\ sNext0 = 0
  /\ sendData = <<>>
  /\ rPc = "unspawned"
  /\ rIndex = 0
  /\ rPrevious = 0
  /\ rRecord = TRUE
  /\ rError = FALSE
  /\ rFailed = FALSE
  /\ rConfigured = "no"
  /\ receiveData = <<>>
  /\ repPc = "unspawned"
  /\ aPc = "idle"
  /\ aIndex = 0
  /\ checkContext = [cpu |-> <<>>, nic |-> <<>>]
  /\ host = [uname |-> "failed", queues |-> <<>>, ifaddrs |-> "failed"]
  /\ dataSource = <<>>
  /\ result = [kind |-> "none", status |-> "none", reason |-> ""]
  /\ cpuSet = {}
  /\ presence = "none"
  /\ emitted = <<>>

(***************************************************************************)
(* The orchestrator: main.                                                 *)
(***************************************************************************)
MainReturnLeaking(value) ==
  /\ mainPc' = "returned"
  /\ returned' = value
  /\ UNCHANGED <<latencyFd, dmaLatencyOpen>>

\* a return statement of main, or falling off the try block: the locals of
\* main are destroyed, ~FileDescriptor closes a descriptor that is held
MainReturn(value) ==
  /\ mainPc' = "returned"
  /\ returned' = value
  /\ latencyFd' = -1
  /\ dmaLatencyOpen' = (IF latencyFd >= 0 THEN FALSE ELSE dmaLatencyOpen)

\* main goes on to the statement at pc
MainGoto(pc) ==
  /\ mainPc' = pc
  /\ UNCHANGED retVars

\* main.cpp:383-406, ParseArguments stores the options it was given
MainParse ==
  /\ mainPc = "parse"
  /\ \E ok \in BOOLEAN :
       IF ok
         THEN /\ \E nic \in NicInputs, iterations \in IterationInputs,
                    sendSleep \in SendSleepInputs,
                    bucketWidth \in BucketWidthInputs,
                    sendCpu \in CpuInputs, receiveCpu \in CpuInputs :
                   params' = [params EXCEPT !.NicName = nic,
                                            !.Iterations = iterations,
                                            !.SendSleep = sendSleep,
                                            !.BucketWidth = bucketWidth,
                                            !.SendCpu = sendCpu,
                                            !.ReceiveCpu = receiveCpu]
              /\ noConfig' \in BOOLEAN
              /\ onlyConfig' \in BOOLEAN
              /\ showHelp' \in BOOLEAN
              /\ showVersion' \in BOOLEAN
              /\ parsed' = "ok"
              /\ MainGoto("help")
         ELSE /\ parsed' = "error"
              /\ MainReturn(1)
              /\ UNCHANGED <<params, noConfig, onlyConfig, showHelp,
                             showVersion>>
  /\ UNCHANGED <<envVars, exitCode, doneVars, mainLog, threadVars>>
  /\ UNCHANGED auditVars

\* main.cpp:408-418, --help and --version
MainHelpVersion ==
  /\ mainPc = "help"
  /\ IF showHelp \/ showVersion THEN MainReturn(0) ELSE MainGoto("flags")
  /\ UNCHANGED <<envVars, exitCode, optVars, doneVars, mainLog, threadVars>>
  /\ UNCHANGED auditVars

ConflictingFlagsIgnored(nc, oc) == FALSE

\* main.cpp:421
ConflictingFlags(nc, oc) == nc /\ oc

\* main.cpp:427
NotRoot(uid) == uid # 0

\* main.cpp:420-431
MainValidate ==
  /\ mainPc = "flags"
  /\ IF ConflictingFlags(noConfig, onlyConfig) \/ NotRoot(euid)
       THEN MainReturn(1)
       ELSE MainGoto("audit")
  /\ UNCHANGED <<envVars, exitCode, optVars, doneVars, mainLog, threadVars>>
  /\ UNCHANGED auditVars

\* config.cpp:1188, the guard of ReportSystemConfiguration
ValidCpu(cpu) == ~(cpu < 0 \/ cpu >= CpuCount)

\* config.cpp:1185-1267: an invalid core is reported and nothing is audited
ReportSystemConfiguration(cpu, nicName) ==
  IF ValidCpu(cpu) THEN "done" ELSE "invalid"

RunsAuditAlways(nc) == TRUE

\* main.cpp:433
RunsAudit(nc) == ~nc

\* main.cpp:433-436
MainAudit ==
  /\ mainPc = "audit"
  /\ IF RunsAudit(noConfig)
       THEN /\ audit' = ReportSystemConfiguration(params.SendCpu,
                                                  params.NicName)
            /\ mainLog' = Append(mainLog, "audit")
       ELSE UNCHANGED <<audit, mainLog>>
  /\ MainGoto("onlyConfig")
  /\ UNCHANGED <<envVars, exitCode, optVars, mlock, tester, finalRender,
                 threadVars>>
  /\ UNCHANGED auditVars

\* main.cpp:438-442
MainOnlyConfig ==
  /\ mainPc = "onlyConfig"
  /\ IF onlyConfig THEN MainReturn(0) ELSE MainGoto("mlockall")
  /\ UNCHANGED <<envVars, exitCode, optVars, doneVars, mainLog, threadVars>>
  /\ UNCHANGED auditVars

\* main.cpp:444-448
MainMlockall ==
  /\ mainPc = "mlockall"
  /\ mainLog' = Append(mainLog, "mlockall")
  /\ \E locked \in BOOLEAN :
       IF locked
         THEN /\ mlock' = "ok"
              /\ MainGoto("convert")
         ELSE /\ mlock' = "failed"
              /\ MainReturn(1)
  /\ UNCHANGED <<envVars, exitCode, optVars, audit, tester, finalRender,
                 threadVars>>
  /\ UNCHANGED auditVars

\* main.cpp:450-458.  SendSleep * 0.125 is exact in a double below 2^53 and
\* the conversion back to uint64_t truncates.
ConvertUnits(p) ==
  LET sendSleep == p.SendSleep * NanoPerMicro
  IN  [p EXCEPT !.SendSleep = sendSleep,
                !.BucketWidth = IF p.BucketWidth = 0
                                  THEN sendSleep \div 8
                                  ELSE p.BucketWidth * NanoPerMicro]

MainConvert ==
  /\ mainPc = "convert"
  /\ params' = ConvertUnits(params)
  /\ MainGoto("latency")
  /\ UNCHANGED <<envVars, exitCode, noConfig, onlyConfig, showHelp,
                 showVersion, parsed, doneVars, mainLog, threadVars>>
  /\ UNCHANGED auditVars

\* main.cpp:273-296, SetLatencyTarget: the descriptor it returns
SetLatencyTarget(outcome) ==
  IF outcome \in {"stat_failed", "open_failed"} THEN -1 ELSE 3

\* main.cpp:460
MainLatency ==
  /\ mainPc = "latency"
  /\ \E outcome \in {"stat_failed", "open_failed", "write_failed", "ok"} :
       /\ latencyFd' = SetLatencyTarget(outcome)
       /\ dmaLatencyOpen' = (latencyFd' >= 0)
       /\ mainLog' = (IF latencyFd' >= 0
                        THEN Append(mainLog, "open_latency")
                        ELSE mainLog)
  /\ mainPc' = "mode"
  /\ UNCHANGED <<envVars, exitCode, returned, optVars, doneVars, threadVars>>
  /\ UNCHANGED auditVars

\* main.cpp:477 and 505-507: in NIC mode the tester is built, and its
\* constructor may throw (caught at main.cpp:528)
MainTester ==
  /\ mainPc = "mode"
  /\ IF NicMode
       THEN \E built \in BOOLEAN :
              IF built
                THEN /\ tester' = TRUE
                     /\ MainGoto("spawnReceiver")
                     /\ UNCHANGED exitCode
                ELSE /\ exitCode' = 1
                     /\ MainGoto("return")
                     /\ UNCHANGED tester
       ELSE /\ MainGoto("spawnSender")
            /\ UNCHANGED <<tester, exitCode>>
  /\ UNCHANGED <<envVars, optVars, audit, mlock, finalRender, mainLog,
                 threadVars>>
  /\ UNCHANGED auditVars

\* main.cpp:509
MainSpawnReceiver ==
  /\ mainPc = "spawnReceiver"
  /\ rPc' = "configure"
  /\ mainLog' = Append(mainLog, "spawn_receiver")
  /\ MainGoto("spawnSender")
  /\ UNCHANGED <<envVars, exitCode, optVars, doneVars, flagVars, senderVars,
                 rIndex, rPrevious, rRecord, rError, rFailed, receiveData,
                 repPc>>
  /\ UNCHANGED rConfigured
  /\ UNCHANGED auditVars

\* main.cpp:483 (cyclicThread) and 510 (senderThread)
MainSpawnSender ==
  /\ mainPc = "spawnSender"
  /\ sPc' = "configure"
  /\ mainLog' = Append(mainLog, "spawn_sender")
  /\ MainGoto("spawnReport")
  /\ UNCHANGED <<envVars, exitCode, optVars, doneVars, flagVars, sIndex,
                 sNext, sCurrent, sPrevious, sRecord, sError, sOldNext, sNext0,
                 sendData, receiverVars, repPc>>
  /\ UNCHANGED sConfigured
  /\ UNCHANGED auditVars

\* main.cpp:485-486 and 512-513
MainSpawnReport ==
  /\ mainPc = "spawnReport"
  /\ repPc' = "loop"
  /\ mainLog' = Append(mainLog, "spawn_report")
  /\ MainGoto(IF NicMode THEN "joinReceiver" ELSE "joinSender")
  /\ UNCHANGED <<envVars, exitCode, optVars, doneVars, flagVars, senderVars,
                 receiverVars>>
  /\ UNCHANGED auditVars

MainJoinReceiverDetached ==
  /\ mainPc = "joinReceiver"
  /\ testRunning' = FALSE
  /\ mainLog' = mainLog \o <<"join_receiver", "stop_test">>
  /\ MainGoto("joinSender")
  /\ UNCHANGED <<envVars, exitCode, optVars, doneVars, liveReport,
                 reportMutex, senderVars, receiverVars, repPc>>
  /\ UNCHANGED auditVars

\* main.cpp:515-516: receiverThread.join(), then testRunning is cleared
MainJoinReceiver ==
  /\ mainPc = "joinReceiver"
  /\ rPc = "done"
  /\ testRunning' = FALSE
  /\ mainLog' = mainLog \o <<"join_receiver", "stop_test">>
  /\ MainGoto("joinSender")
  /\ UNCHANGED <<envVars, exitCode, optVars, doneVars, liveReport,
                 reportMutex, senderVars, receiverVars, repPc>>
  /\ UNCHANGED auditVars

MainJoinSenderDetached ==
  /\ mainPc = "joinSender"
  /\ testRunning' = (IF NicMode THEN testRunning ELSE FALSE)
  /\ liveReport' = FALSE
  /\ mainLog' = mainLog \o (IF NicMode
                              THEN <<"join_sender", "stop_report">>
                              ELSE <<"join_sender", "stop_test",
                                     "stop_report">>)
  /\ MainGoto("joinReport")
  /\ UNCHANGED <<envVars, exitCode, optVars, doneVars, reportMutex,
                 senderVars, receiverVars, repPc>>
  /\ UNCHANGED auditVars

\* main.cpp:488-490 (cyclic) and 517-519 (NIC): the sender is joined, then
\* the flags are cleared
MainJoinSender ==
  /\ mainPc = "joinSender"
  /\ sPc = "done"
  /\ testRunning' = (IF NicMode THEN testRunning ELSE FALSE)
  /\ liveReport' = FALSE
  /\ mainLog' = mainLog \o (IF NicMode
                              THEN <<"join_sender", "stop_report">>
                              ELSE <<"join_sender", "stop_test",
                                     "stop_report">>)
  /\ MainGoto("joinReport")
  /\ UNCHANGED <<envVars, exitCode, optVars, doneVars, reportMutex,
                 senderVars, receiverVars, repPc>>
  /\ UNCHANGED auditVars

MainJoinReportDetached ==
  /\ mainPc = "joinReport"
  /\ mainLog' = Append(mainLog, "join_report")
  /\ MainGoto("final")
  /\ UNCHANGED <<envVars, exitCode, optVars, doneVars, threadVars>>
  /\ UNCHANGED auditVars

\* main.cpp:491 and 520
MainJoinReport ==
  /\ mainPc = "joinReport"
  /\ repPc = "done"
  /\ mainLog' = Append(mainLog, "join_report")
  /\ MainGoto("final")
  /\ UNCHANGED <<envVars, exitCode, optVars, doneVars, threadVars>>
  /\ UNCHANGED auditVars

\* main.cpp:523-525
MainFinalRender ==
  /\ mainPc = "final"
  /\ finalRender' = TRUE
  /\ mainLog' = Append(mainLog, "final_render")
  /\ MainGoto("return")
  /\ UNCHANGED <<envVars, exitCode, optVars, audit, mlock, tester,
                 threadVars>>
  /\ UNCHANGED auditVars

\* main.cpp:527-534: the try block is left and exitCode is returned
MainExit ==
  /\ mainPc = "return"
  /\ MainReturn(exitCode)
  /\ UNCHANGED <<envVars, exitCode, optVars, doneVars, mainLog, threadVars>>
  /\ UNCHANGED auditVars

Main ==
  \/ MainParse \/ MainHelpVersion \/ MainValidate \/ MainAudit
  \/ MainOnlyConfig \/ MainMlockall \/ MainConvert \/ MainLatency
  \/ MainTester \/ MainSpawnReceiver \/ MainSpawnSender \/ MainSpawnReport
  \/ MainJoinReceiver \/ MainJoinSender \/ MainJoinReport
  \/ MainFinalRender \/ MainExit

(***************************************************************************)
(* The sender thread: SenderThread, main.cpp:106-154.                      *)
(***************************************************************************)
\* main.cpp:149-153, the catch block
SenderCatch ==
  /\ testRunning' = FALSE
  /\ sError' = TRUE
  /\ sPc' = "done"

\* main.cpp:110
SenderConfigure ==
  /\ sPc = "configure"
  /\ \E outcome \in ConfigureThisThread(params.SendPriority, params.SendCpu) :
       /\ sConfigured' = outcome
       /\ IF ConfiguredBoth(outcome)
            THEN /\ sPc' = "init"
                 /\ UNCHANGED <<testRunning, sError>>
            ELSE SenderCatch
  /\ UNCHANGED <<envVars, mainVars, liveReport, reportMutex, sIndex, sNext,
                 sCurrent, sPrevious, sRecord, sOldNext, sNext0, sendData,
                 receiverVars, repPc>>
  /\ UNCHANGED auditVars

\* main.cpp:112-117
SenderInit ==
  /\ sPc = "init"
  /\ \E t \in {now + d : d \in ClockSteps} :
       /\ ClockReads(t)
       /\ now' = t
       /\ sNext' = ClockGetTime(t)
       /\ sNext0' = t
  /\ sRecord' = TRUE
  /\ sIndex' = 0
  /\ sPrevious' = 0
  /\ sPc' = "loop"
  /\ UNCHANGED <<euid, inFlight, mainVars, flagVars, sCurrent,
                 sError, sOldNext, sendData, receiverVars, repPc>>
  /\ UNCHANGED sConfigured
  /\ UNCHANGED auditVars

\* main.cpp:118-121: the loop condition and the decision to record
SenderLoop ==
  /\ sPc = "loop"
  /\ params.Iterations = RunIndefinitely /\ testRunning => sIndex < MaxIndex
  /\ IF KeepRunning(testRunning, sIndex, params.Iterations)
       THEN /\ sRecord' = RecordTime(sIndex, params.Iterations)
            /\ sPc' = (IF tester THEN "send" ELSE "sample")
       ELSE /\ sPc' = "done"
            /\ UNCHANGED sRecord
  /\ UNCHANGED <<envVars, mainVars, flagVars, sIndex, sNext, sCurrent,
                 sPrevious, sError, sOldNext, sNext0, sendData, receiverVars,
                 repPc>>
  /\ UNCHANGED sConfigured
  /\ UNCHANGED auditVars

\* main.cpp:124-127: tester->Send() puts a frame on the wire, or throws
SenderSend ==
  /\ sPc = "send"
  /\ \E sent \in BOOLEAN :
       IF sent
         THEN /\ inFlight' = inFlight + 1
              /\ sPc' = "sample"
              /\ UNCHANGED <<testRunning, sError>>
         ELSE /\ SenderCatch
              /\ UNCHANGED inFlight
  /\ UNCHANGED <<now, euid, mainVars, liveReport, reportMutex,
                 sIndex, sNext, sCurrent, sPrevious, sRecord, sOldNext, sNext0,
                 sendData, receiverVars, repPc>>
  /\ UNCHANGED sConfigured
  /\ UNCHANGED auditVars

\* TimerReport::AddObservation(observation, index) on a ReportData
AddObservation(data, observation, index) == Append(data, index)

\* main.cpp:130-137: the clock sample, the observation and the first advance
SenderSample ==
  /\ sPc = "sample"
  /\ \E t \in {now + d : d \in ClockSteps} :
       /\ ClockReads(t)
       /\ now' = t
       /\ sCurrent' = t
       /\ sendData' = (IF sRecord
                         THEN AddObservation(sendData, t - sPrevious, sIndex)
                         ELSE sendData)
  /\ sOldNext' = ToEpoch(sNext)
  /\ sNext' = AddNanoToTimespec(sNext, params.SendSleep)
  /\ sPc' = "catchup"
  /\ UNCHANGED <<euid, inFlight, mainVars, flagVars, sIndex,
                 sPrevious, sRecord, sError, sNext0, receiverVars, repPc>>
  /\ UNCHANGED sConfigured
  /\ UNCHANGED auditVars

FallingBehindOrEqual(current, next) == current >= ToEpoch(next)

\* main.cpp:139
FallingBehind(current, next) == current > ToEpoch(next)

\* main.cpp:139-142: one turn of the catch-up loop
SenderCatchUp ==
  /\ sPc = "catchup"
  /\ IF FallingBehind(sCurrent, sNext)
       THEN /\ sNext' = AddNanoToTimespec(sNext, params.SendSleep)
            /\ UNCHANGED sPc
       ELSE /\ sPc' = "sleep"
            /\ UNCHANGED sNext
  /\ UNCHANGED <<envVars, mainVars, flagVars, sIndex, sCurrent, sPrevious,
                 sRecord, sError, sOldNext, sNext0, sendData, receiverVars,
                 repPc>>
  /\ UNCHANGED sConfigured
  /\ UNCHANGED auditVars

\* main.cpp:143-146: clock_nanosleep(TIMER_ABSTIME) returns when the clock
\* has reached next
SenderSleep ==
  /\ sPc = "sleep"
  /\ now' = Max(now, ToEpoch(sNext))
  /\ sPrevious' = sCurrent
  /\ sIndex' = sIndex + 1
  /\ sPc' = "loop"
  /\ UNCHANGED <<euid, inFlight, mainVars, flagVars, sNext,
                 sCurrent, sRecord, sError, sOldNext, sNext0, sendData,
                 receiverVars, repPc>>
  /\ UNCHANGED sConfigured
  /\ UNCHANGED auditVars

Sender ==
  \/ SenderConfigure \/ SenderInit \/ SenderLoop \/ SenderSend
  \/ SenderSample \/ SenderCatchUp \/ SenderSleep

(***************************************************************************)
(* The receiver thread: ReceiverThread, main.cpp:157-196.                  *)
(***************************************************************************)
\* main.cpp:161-167, with the catch block of 191-195
ReceiverConfigure ==
  /\ rPc = "configure"
  /\ \E outcome \in ConfigureThisThread(params.ReceivePriority,
                                        params.ReceiveCpu) :
       /\ rConfigured' = outcome
       /\ IF ConfiguredBoth(outcome)
            THEN /\ rPc' = "loop"
                 /\ UNCHANGED <<testRunning, rError>>
            ELSE /\ testRunning' = FALSE
                 /\ rError' = TRUE
                 /\ rPc' = "done"
  /\ rRecord' = TRUE
  /\ rIndex' = 0
  /\ rPrevious' = 0
  /\ UNCHANGED <<envVars, mainVars, liveReport, reportMutex, senderVars,
                 rFailed, receiveData, repPc>>
  /\ UNCHANGED auditVars

\* main.cpp:168-171
ReceiverLoop ==
  /\ rPc = "loop"
  /\ params.Iterations = RunIndefinitely /\ testRunning => rIndex < MaxIndex
  /\ IF KeepRunning(testRunning, rIndex, params.Iterations)
       THEN /\ rRecord' = RecordTime(rIndex, params.Iterations)
            /\ rPc' = "receive"
       ELSE /\ rPc' = "done"
            /\ UNCHANGED rRecord
  /\ UNCHANGED <<envVars, mainVars, flagVars, senderVars, rIndex, rPrevious,
                 rError, rFailed, receiveData, repPc>>
  /\ UNCHANGED rConfigured
  /\ UNCHANGED auditVars

\* INicTest::Receive (spec 4.4, 5): a blocking read of the socket, without a
\* timeout.  It returns true with a frame, false on a receive failure.
ReceiveReturns(frames) ==
  {FALSE} \cup (IF frames > 0 THEN {TRUE} ELSE {})

\* main.cpp:174-179
ReceiverReceive ==
  /\ rPc = "receive"
  /\ \E received \in ReceiveReturns(inFlight) :
       IF received
         THEN /\ inFlight' = inFlight - 1
              /\ rPc' = "sample"
              /\ UNCHANGED <<testRunning, rFailed>>
         ELSE /\ testRunning' = FALSE
              /\ rFailed' = TRUE
              /\ rPc' = "done"
              /\ UNCHANGED inFlight
  /\ UNCHANGED <<now, euid, mainVars, liveReport, reportMutex,
                 senderVars, rIndex, rPrevious, rRecord, rError, receiveData,
                 repPc>>
  /\ UNCHANGED rConfigured
  /\ UNCHANGED auditVars

\* main.cpp:181-188
ReceiverSample ==
  /\ rPc = "sample"
  /\ \E t \in {now + d : d \in ClockSteps} :
       /\ ClockReads(t)
       /\ now' = t
       /\ receiveData' = (IF rRecord
                            THEN AddObservation(receiveData, t - rPrevious,
                                                rIndex)
                            ELSE receiveData)
       /\ rPrevious' = t
  /\ rIndex' = rIndex + 1
  /\ rPc' = "loop"
  /\ UNCHANGED <<euid, inFlight, mainVars, flagVars,
                 senderVars, rRecord, rError, rFailed, repPc>>
  /\ UNCHANGED rConfigured
  /\ UNCHANGED auditVars

Receiver ==
  \/ ReceiverConfigure \/ ReceiverLoop \/ ReceiverReceive \/ ReceiverSample

(***************************************************************************)
(* The live reporter: ReportThread, main.cpp:337-347.                      *)
(***************************************************************************)
\* main.cpp:340
ReportLoop ==
  /\ repPc = "loop"
  /\ repPc' = (IF liveReport THEN "tick" ELSE "done")
  /\ UNCHANGED <<envVars, mainVars, flagVars, senderVars, receiverVars>>
  /\ UNCHANGED auditVars

\* main.cpp:342: std::unique_lock lock(reportMutex)
ReportLock ==
  /\ repPc = "tick"
  /\ reportMutex = "free"
  /\ reportMutex' = "reporter"
  /\ repPc' = "render"
  /\ UNCHANGED <<envVars, mainVars, testRunning, liveReport, senderVars,
                 receiverVars>>
  /\ UNCHANGED auditVars

\* main.cpp:343-344: PrintReport redraws the table from the ReportData of
\* both workers; the redraw is complete when this step is taken
ReportRender ==
  /\ repPc = "render"
  /\ repPc' = "sleep"
  /\ UNCHANGED reportMutex
  /\ UNCHANGED <<envVars, mainVars, testRunning, liveReport, senderVars,
                 receiverVars>>
  /\ UNCHANGED auditVars

\* main.cpp:345-346: sleep_for(ReportInterval), then the lock is released
ReportSleep ==
  /\ repPc = "sleep"
  /\ reportMutex' = "free"
  /\ repPc' = "loop"
  /\ UNCHANGED <<envVars, mainVars, testRunning, liveReport, senderVars,
                 receiverVars>>
  /\ UNCHANGED auditVars

Reporter == ReportLoop \/ ReportLock \/ ReportRender \/ ReportSleep

(***************************************************************************)
(* The program.                                                            *)
(***************************************************************************)
Next == Main \/ Sender \/ Receiver \/ Reporter

Spec == Init /\ [][Next]_vars

\* The threads run in parallel, each on a CPU of its own or preempting the
\* others: a step that stays possible is taken.  A frame that is on the wire
\* is delivered; a receive failure is never owed.
ReceiverProgress ==
  \/ ReceiverConfigure \/ ReceiverLoop \/ ReceiverSample
  \/ (ReceiverReceive /\ rPc' = "sample")

FairSpec ==
  /\ Spec
  /\ WF_vars(Main)
  /\ WF_vars(Sender)
  /\ WF_vars(ReceiverProgress)
  /\ WF_vars(Reporter)

(***************************************************************************)
(* The audit of source/config.cpp.  A text is a sequence of characters; a  *)
(* std::optional is a sequence of at most one element.                     *)
(***************************************************************************)
Has(optional) == optional # <<>>

Value(optional) == optional[1]

Digits == {"0", "1", "2", "3", "4", "5", "6", "7", "8", "9"}

DigitValue(c) ==
  CASE c = "0" -> 0 [] c = "1" -> 1 [] c = "2" -> 2 [] c = "3" -> 3
    [] c = "4" -> 4 [] c = "5" -> 5 [] c = "6" -> 6 [] c = "7" -> 7
    [] c = "8" -> 8 [] c = "9" -> 9

\* std::isspace in the C locale, for the characters the texts are made of
IsSpace(c) == c \in {" ", "\t", "\n"}

RECURSIVE TrimLeft(_)
TrimLeft(str) ==
  IF str # <<>> /\ IsSpace(Head(str)) THEN TrimLeft(Tail(str)) ELSE str

RECURSIVE TrimRight(_)
TrimRight(str) ==
  IF str # <<>> /\ IsSpace(str[Len(str)])
    THEN TrimRight(SubSeq(str, 1, Len(str) - 1))
    ELSE str

\* config.cpp:40-46
Trim(str) == TrimRight(TrimLeft(str))

\* std::string::find(c): the first position of c, 0 for npos
Find(str, c) ==
  IF \E i \in 1 .. Len(str) : str[i] = c
    THEN CHOOSE i \in 1 .. Len(str) :
           str[i] = c /\ \A j \in 1 .. (i - 1) : str[j] # c
    ELSE 0

RECURSIVE LeadingDigits(_)
LeadingDigits(str) ==
  IF str # <<>> /\ Head(str) \in Digits
    THEN <<Head(str)>> \o LeadingDigits(Tail(str))
    ELSE <<>>

RECURSIVE DecimalValue(_)
DecimalValue(digits) ==
  IF digits = <<>>
    THEN 0
    ELSE DecimalValue(SubSeq(digits, 1, Len(digits) - 1)) * 10
           + DigitValue(digits[Len(digits)])

\* std::stoi / std::stoll: leading whitespace is skipped, a sign is taken,
\* then the longest run of digits; what follows the digits is ignored; no
\* digit at all throws std::invalid_argument (here: the empty optional)
StoI(str) ==
  LET text == TrimLeft(str)
      signed == text # <<>> /\ Head(text) \in {"+", "-"}
      digits == LeadingDigits(IF signed THEN Tail(text) ELSE text)
  IN  IF digits = <<>>
        THEN <<>>
        ELSE IF signed /\ Head(text) = "-"
               THEN <<0 - DecimalValue(digits)>>
               ELSE <<DecimalValue(digits)>>

\* the std::getline(stream, token, ',') loop of config.cpp:83
RECURSIVE SplitComma(_)
SplitComma(str) ==
  IF str = <<>>
    THEN <<>>
    ELSE LET comma == Find(str, ",")
         IN  IF comma = 0
               THEN <<str>>
               ELSE <<SubSeq(str, 1, comma - 1)>>
                      \o SplitComma(SubSeq(str, comma + 1, Len(str)))

\* config.cpp:85-103, what one token adds to the set; a token std::stoi
\* throws on adds nothing
TokenCpus(rawToken) ==
  LET token == Trim(rawToken)
      dash == Find(token, "-")
  IN  IF token = <<>>
        THEN {}
        ELSE IF dash = 0
          THEN LET value == StoI(token)
               IN  IF Has(value) THEN {Value(value)} ELSE {}
          ELSE LET start == StoI(SubSeq(token, 1, dash - 1))
                   end == StoI(SubSeq(token, dash + 1, Len(token)))
               IN  IF Has(start) /\ Has(end)
                     THEN IF Value(start) > Value(end)
                            THEN Value(end) .. Value(start)
                            ELSE Value(start) .. Value(end)
                     ELSE {}

\* config.cpp:76-106
ParseCpuList(str) ==
  LET tokens == SplitComma(Trim(str))
  IN  UNION {TokenCpus(tokens[i]) : i \in 1 .. Len(tokens)}

(***************************************************************************)
(* The data source and the checks.  A data source is a function from the   *)
(* paths it can read to their contents; a path outside its domain is not   *)
(* readable.  <cpu> and <nic> in a path stand for the subject of the       *)
(* context.  A file that holds one word is given as Trim leaves it; CPU    *)
(* lists and numbers are texts.  A reason that quotes what was read is     *)
(* given by name, "<...>", and is empty exactly when the program's is.     *)
(***************************************************************************)
\* IDataSource::Read, config.cpp:277
Read(source, path) ==
  IF path \in DOMAIN source THEN <<source[path]>> ELSE <<>>

\* IDataSource::CmdLineParam, config.cpp:278 and 113-133
CmdLineParam(source, key) == Read(source, "cmdline:" \o key)

CheckResult(kind, status, name, reason) ==
  [kind |-> kind, status |-> status, reason |-> reason]

\* how a list that is quoted in a reason reads
Quoted(text, name) == IF text = <<>> THEN "" ELSE name

\* config.cpp:214-219
NicExists(source, nic) ==
  \/ Has(Read(source, "/sys/class/net/<nic>/operstate"))
  \/ Has(Read(source, "/sys/class/net/<nic>/carrier"))
  \/ Has(Read(source, "/sys/class/net/<nic>/address"))

\* config.cpp:291-312
NohzFullCheck(context, source, machine) ==
  LET kind == "NohzFull"
      name == "nohz_full on RT core"
      sysfs_value == Read(source, "/sys/devices/system/cpu/nohz_full")
      cmdline_value == CmdLineParam(source, "nohz_full")
  IN  IF ~Has(context.cpu)
        THEN CheckResult(kind, "Unknown", name, "no CPU subject")
      ELSE IF Has(sysfs_value)
        THEN IF Value(context.cpu) \in ParseCpuList(Trim(Value(sysfs_value)))
               THEN CheckResult(kind, "Pass", name, "nohz_full list: <raw>")
               ELSE CheckResult(kind, "Fail", name,
                                "CPU<cpu> not in nohz_full: <raw>")
      ELSE IF Has(cmdline_value)
        THEN IF Value(context.cpu) \in ParseCpuList(Value(cmdline_value))
               THEN CheckResult(kind, "Pass", name,
                                "cmdline nohz_full=<value>")
               ELSE CheckResult(kind, "Fail", name,
                                "RT core not in cmdline nohz_full=<value>")
      ELSE CheckResult(kind, "Unknown", name,
                       "no sysfs entry and no cmdline param")

\* config.cpp:322-331
NicPresenceCheck(context, source, machine) ==
  LET kind == "NicPresent"
      name == "NIC interface present"
  IN  IF ~Has(context.nic)
        THEN CheckResult(kind, "Unknown", name, "no NIC in context")
      ELSE IF NicExists(source, Value(context.nic))
        THEN CheckResult(kind, "Pass", name, "exists")
      ELSE CheckResult(kind, "Unknown", name, "interface not found")

\* config.cpp:341-362
NicLinkUpCheck(context, source, machine) ==
  LET kind == "NicLinkUp"
      name == "NIC link is UP"
      oper == Read(source, "/sys/class/net/<nic>/operstate")
      car == Read(source, "/sys/class/net/<nic>/carrier")
  IN  IF ~Has(context.nic)
        THEN CheckResult(kind, "Unknown", name, "no NIC in context")
      ELSE IF ~NicExists(source, Value(context.nic))
        THEN CheckResult(kind, "Unknown", name, "NIC not found")
      ELSE IF Has(oper) /\ Value(oper) = "up"
        THEN CheckResult(kind, "Pass", name, "operstate=up")
      ELSE IF Has(oper) /\ Value(oper) # ""
        THEN CheckResult(kind, "Fail", name, "operstate=<v>")
      ELSE IF Has(car) /\ Value(car) = "1"
        THEN CheckResult(kind, "Pass", name, "carrier=1")
      ELSE IF Has(car) /\ Value(car) = "0"
        THEN CheckResult(kind, "Fail", name, "carrier=0")
      ELSE CheckResult(kind, "Unknown", name, "no operstate/carrier")

\* config.cpp:372-399; uname() is asked of the machine, not of the data
\* source, and names the boot configuration that is read
PreemptRTActiveCheck(context, source, machine) ==
  LET kind == "PreemptRTActive"
      name == "PREEMPT_RT active"
      sysfs_value == Read(source, "/sys/kernel/realtime")
      config == Read(source, "/boot/config-<release>")
  IN  IF Has(sysfs_value) /\ Value(sysfs_value) = "1"
        THEN CheckResult(kind, "Pass", name, "/sys/kernel/realtime=1")
      ELSE IF Has(sysfs_value) /\ Value(sysfs_value) = "0"
        THEN CheckResult(kind, "Fail", name, "/sys/kernel/realtime=0")
      ELSE IF machine.uname = "PREEMPT_RT"
        THEN CheckResult(kind, "Pass", name, "uname -v: <version>")
      ELSE IF /\ machine.uname # "failed"
              /\ Has(config)
              /\ Value(config) \in {"CONFIG_PREEMPT_RT=y",
                                    "CONFIG_PREEMPT_RT_FULL=y"}
        THEN CheckResult(kind, "Pass", name,
                         "/boot/config-<release> has CONFIG_PREEMPT_RT=y")
      ELSE IF /\ machine.uname # "failed"
              /\ Has(config) /\ Value(config) = "CONFIG_PREEMPT=y"
        THEN CheckResult(kind, "Fail", name,
                         "Only low-latency PREEMPT, not RT")
      ELSE CheckResult(kind, "Fail", name, "No evidence of RT kernel")

\* config.cpp:409-424
CoreIsolatedCheck(context, source, machine) ==
  LET kind == "CoreIsolated"
      name == "RT core isolated"
      s == Read(source, "/sys/devices/system/cpu/isolated")
      raw == Trim(Value(s))
      set == ParseCpuList(raw)
  IN  IF ~Has(context.cpu)
        THEN CheckResult(kind, "Unknown", name, "no CPU subject")
      ELSE IF ~Has(s)
        THEN CheckResult(kind, "Unknown", name, "no /sys/.../isolated")
      ELSE IF Value(context.cpu) = 0
        THEN IF 0 \in set
               THEN CheckResult(kind, "Fail", name,
                      "CPU0 is isolated but should not be your RT core")
               ELSE CheckResult(kind, "Fail", name,
                      "CPU0 selected; choose non-CPU0")
      ELSE IF Value(context.cpu) \in set
        THEN CheckResult(kind, "Pass", name, "isolated list: <raw>")
      ELSE CheckResult(kind, "Fail", name, "CPU<cpu> not in isolated: <raw>")

\* config.cpp:434-444
CpuGovernorCheck(context, source, machine) ==
  LET kind == "CpuGovernor"
      name == "CPU governor = performance"
      s == Read(source,
                "/sys/devices/system/cpu/cpu<cpu>/cpufreq/scaling_governor")
  IN  IF ~Has(context.cpu)
        THEN CheckResult(kind, "Unknown", name, "no CPU subject")
      ELSE IF ~Has(s)
        THEN CheckResult(kind, "Unknown", name,
                         "no cpufreq governor for cpu<cpu>")
      ELSE IF Value(s) = "performance"
        THEN CheckResult(kind, "Pass", name, "governor=<gov>")
      ELSE CheckResult(kind, "Fail", name, "governor=<gov>")

\* config.cpp:454-459
read_int64(source, path) ==
  LET value == Read(source, path)
  IN  IF Has(value) THEN StoI(Trim(Value(value))) ELSE <<>>

\* integer division of C++: towards zero
Quotient(a, b) == IF a >= 0 THEN a \div b ELSE 0 - ((0 - a) \div b)

AbsOfPositive(a) == a

\* std::abs, config.cpp:475
Abs(a) == IF a >= 0 THEN a ELSE 0 - a

\* config.cpp:461-523
CpuFrequencyCheck(context, source, machine) ==
  LET kind == "CpuFrequency"
      name == "CPU current frequency"
      base == "/sys/devices/system/cpu/cpu<cpu>/cpufreq/"
      current_freq == read_int64(source, base \o "scaling_cur_freq")
      min_freq == read_int64(source, base \o "scaling_min_freq")
      max_freq == read_int64(source, base \o "scaling_max_freq")
      cpuinfo == Read(source, "/proc/cpuinfo")
  IN  IF ~Has(context.cpu)
        THEN CheckResult(kind, "Unknown", name, "no CPU subject")
      ELSE IF Has(current_freq) /\ Has(min_freq) /\ Has(max_freq)
        THEN IF Value(min_freq) = Value(max_freq)
               THEN LET tolerance == Quotient(Value(max_freq) * 5, 100)
                        current_matches ==
                          Abs(Value(current_freq) - Value(max_freq))
                            <= tolerance
                    IN  IF current_matches
                          THEN CheckResult(kind, "Pass", name,
                                           "<max> kHz (locked)")
                          ELSE CheckResult(kind, "Fail", name,
                                 "cur=<cur> kHz, locked=<max> kHz")
               ELSE CheckResult(kind, "Fail", name,
                      "cur=<cur> kHz, min=<min> kHz, max=<max> kHz")
      ELSE IF Has(current_freq) \/ Has(min_freq) \/ Has(max_freq)
        THEN CheckResult(kind, "Unknown", name,
                         "cur=<cur|?>, min=<min|?>, max=<max|?>")
      ELSE IF Has(cpuinfo) /\ Value(cpuinfo) = "cpu MHz"
        THEN CheckResult(kind, "Unknown", name, "<mhz> MHz (/proc/cpuinfo)")
      ELSE CheckResult(kind, "Unknown", name, "unavailable")

RcuNoCbsCheckCmdlineFirst(context, source, machine) ==
  LET kind == "RcuNoCbs"
      name == "rcu_nocbs includes RT core"
      sysfs_value == Read(source, "/sys/devices/system/cpu/rcu_nocbs")
      cmdline_value == CmdLineParam(source, "rcu_nocbs")
      raw == IF Has(cmdline_value) THEN Trim(Value(cmdline_value))
                                   ELSE Trim(Value(sysfs_value))
  IN  IF ~Has(context.cpu)
        THEN CheckResult(kind, "Unknown", name, "no CPU subject")
      ELSE IF ~Has(sysfs_value) /\ ~Has(cmdline_value)
        THEN CheckResult(kind, "Unknown", name,
                         "no sysfs and no cmdline param")
      ELSE IF Value(context.cpu) \in ParseCpuList(raw)
        THEN CheckResult(kind, "Pass", name, Quoted(raw, "<raw>"))
      ELSE CheckResult(kind, "Fail", name, "CPU<cpu> not in rcu_nocbs: <raw>")

\* config.cpp:533-544
RcuNoCbsCheck(context, source, machine) ==
  LET kind == "RcuNoCbs"
      name == "rcu_nocbs includes RT core"
      sysfs_value == Read(source, "/sys/devices/system/cpu/rcu_nocbs")
      cmdline_value == CmdLineParam(source, "rcu_nocbs")
      raw == IF Has(sysfs_value) THEN Trim(Value(sysfs_value))
                                 ELSE Trim(Value(cmdline_value))
  IN  IF ~Has(context.cpu)
        THEN CheckResult(kind, "Unknown", name, "no CPU subject")
      ELSE IF ~Has(sysfs_value) /\ ~Has(cmdline_value)
        THEN CheckResult(kind, "Unknown", name,
                         "no sysfs and no cmdline param")
      ELSE IF Value(context.cpu) \in ParseCpuList(raw)
        THEN CheckResult(kind, "Pass", name, Quoted(raw, "<raw>"))
      ELSE CheckResult(kind, "Fail", name, "CPU<cpu> not in rcu_nocbs: <raw>")

\* config.cpp:554-564
IrqAffinityDefaultAvoidsRtCheck(context, source, machine) ==
  LET kind == "IrqAffinityDefaultAvoidsRt"
      name == "irqaffinity excludes RT core"
      value == CmdLineParam(source, "irqaffinity")
      set == ParseCpuList(Value(value))
  IN  IF ~Has(context.cpu)
        THEN CheckResult(kind, "Unknown", name, "no CPU subject")
      ELSE IF ~Has(value)
        THEN CheckResult(kind, "Unknown", name, "no irqaffinity kernel param")
      ELSE IF set = {}
        THEN CheckResult(kind, "Unknown", name, "empty list")
      ELSE IF Value(context.cpu) \in set
        THEN CheckResult(kind, "Fail", name,
                         "RT core present in irqaffinity: <value>")
      ELSE CheckResult(kind, "Pass", name, Quoted(Value(value), "<value>"))

\* /proc/interrupts as the checks take it apart: header is the CPU numbers
\* of the "CPU<n>" columns, in order; a row has its IRQ name (numeric or
\* not), its counts per column and, if any, its label with the NIC names
\* that occur in it.
\* config.cpp:590-602: the column of the RT core, 0 when it is not mapped
CpuColumn(header, cpu) ==
  IF (\E i \in 1 .. Len(header) : header[i] = 0)
       /\ (\E i \in 1 .. Len(header) : header[i] = cpu)
    THEN CHOOSE i \in 1 .. Len(header) :
           header[i] = cpu /\ \A j \in (i + 1) .. Len(header) : header[j] # cpu
    ELSE 0

\* std::string::find of the NIC name in a label; the empty string is found
\* in every label
LabelContains(label, needle) == needle = "" \/ needle \in label.names

\* config.cpp:606-630: the row counts as an offender
Offender(row, column, nic_filter) ==
  /\ row.numeric
  /\ column \in 1 .. Len(row.counts)
  /\ row.counts[column] > 0
  /\ Has(row.label) => ~LabelContains(Value(row.label), nic_filter)

\* config.cpp:574-637
NoUnrelatedIrqsOnRtCheck(context, source, machine) ==
  LET kind == "NoUnrelatedIrqsOnRt"
      name == "No unrelated IRQs on RT core"
      content == Read(source, "/proc/interrupts")
      nic_filter == IF Has(context.nic) THEN Value(context.nic) ELSE ""
      cpu_column == CpuColumn(Value(content).header, Value(context.cpu))
      offenders == {i \in 1 .. Len(Value(content).rows) :
                      Offender(Value(content).rows[i], cpu_column, nic_filter)}
  IN  IF ~Has(context.cpu)
        THEN CheckResult(kind, "Unknown", name, "no CPU subject")
      ELSE IF ~Has(content)
        THEN CheckResult(kind, "Unknown", name,
                         "cannot read /proc/interrupts")
      ELSE IF cpu_column = 0
        THEN CheckResult(kind, "Unknown", name, "could not map CPU column")
      ELSE IF offenders = {}
        THEN CheckResult(kind, "Pass", name, "clean")
      ELSE CheckResult(kind, "Fail", name, "<offenders>")

\* config.cpp:647-681
NicIrqsPinnedCheck(context, source, machine) ==
  LET kind == "NicIrqsPinned"
      name == "NIC IRQs pinned to RT core"
      content == Read(source, "/proc/interrupts")
      rows == Value(content).rows
      nic_irqs == {rows[i].irq : i \in {j \in 1 .. Len(rows) :
                     /\ rows[j].numeric
                     /\ Has(rows[j].label)
                     /\ Value(context.nic) \in Value(rows[j].label).names}}
      affinity(irq) ==
        Read(source, "/proc/irq/" \o ToString(irq) \o "/smp_affinity_list")
      bad_irqs == {irq \in nic_irqs :
                     ParseCpuList(Value(affinity(irq)))
                       # {Value(context.cpu)}}
  IN  IF ~Has(context.cpu)
        THEN CheckResult(kind, "Unknown", name, "no CPU subject")
      ELSE IF ~Has(context.nic)
        THEN CheckResult(kind, "Unknown", name, "no NIC in context")
      ELSE IF ~NicExists(source, Value(context.nic))
        THEN CheckResult(kind, "Unknown", name, "NIC not found")
      ELSE IF ~Has(content)
        THEN CheckResult(kind, "Unknown", name,
                         "cannot read /proc/interrupts")
      ELSE IF nic_irqs = {}
        THEN CheckResult(kind, "Unknown", name, "no NIC IRQs seen")
      ELSE IF \E irq \in nic_irqs : ~Has(affinity(irq))
        THEN CheckResult(kind, "Unknown", name,
                         "cannot read smp_affinity_list for IRQ <irq>")
      ELSE IF bad_irqs = {}
        THEN CheckResult(kind, "Pass", name, "all pinned to CPU<cpu>")
      ELSE CheckResult(kind, "Fail", name, "not pinned: <irqs>")

\* config.cpp:691-726; the queues directory is looked up and listed in the
\* real file system (PathExists, fs::directory_iterator), the rps_cpus files
\* of the rx queues found there are read through the data source
RpsDisabledCheck(context, source, machine) ==
  LET kind == "RpsDisabled"
      name == "RPS disabled on NIC"
      rx_queues == Value(machine.queues)
      masks == [i \in 1 .. Len(rx_queues) |->
                  Read(source, "/sys/class/net/<nic>/queues/"
                                 \o rx_queues[i] \o "/rps_cpus")]
      all_zero_mask(content) ==
        LET value == Trim(Value(content))
        IN  \A i \in 1 .. Len(value) :
              value[i] \in {",", "\n", " ", "\t", "0"}
  IN  IF ~Has(context.nic)
        THEN CheckResult(kind, "Unknown", name, "no NIC in context")
      ELSE IF ~NicExists(source, Value(context.nic))
        THEN CheckResult(kind, "Unknown", name, "NIC not found")
      ELSE IF ~Has(machine.queues)
        THEN CheckResult(kind, "Unknown", name, "no queues dir")
      ELSE IF \E i \in 1 .. Len(masks) : ~Has(masks[i])
        THEN CheckResult(kind, "Unknown", name, "cannot read <path>")
      ELSE IF Len(masks) = 0
        THEN CheckResult(kind, "Unknown", name, "no rx/tx queues found")
      ELSE IF \A i \in 1 .. Len(masks) : all_zero_mask(masks[i])
        THEN CheckResult(kind, "Pass", name, "all zero masks")
      ELSE CheckResult(kind, "Fail", name, "non-zero masks present")

\* config.cpp:736-753: a row of /proc/net/route after the header
default_route_v4_via_nic(source, nic) ==
  LET content == Read(source, "/proc/net/route")
  IN  /\ Has(content)
      /\ \E i \in 1 .. Len(Value(content)) :
           /\ Value(content)[i].iface = nic
           /\ Value(content)[i].dest = "00000000"

\* config.cpp:755-776
default_route_v6_via_nic(source, nic) ==
  LET content == Read(source, "/proc/net/ipv6_route")
  IN  /\ Has(content)
      /\ \E i \in 1 .. Len(Value(content)) :
           /\ Value(content)[i].dest = "00000000000000000000000000000000"
           /\ Value(content)[i].prefix_len \in {"0", "00000000"}
           /\ Value(content)[i].device = nic

\* config.cpp:778-812; the addresses are asked of getifaddrs(), not of the
\* data source
NicQuietCheck(context, source, machine) ==
  LET kind == "NicQuiet"
      name == "NIC is quiet"
      addr_known == machine.ifaddrs # "failed"
      no_address == machine.ifaddrs = "none"
      has_default_v4 == default_route_v4_via_nic(source, Value(context.nic))
      has_default_v6 == default_route_v6_via_nic(source, Value(context.nic))
  IN  IF ~Has(context.nic)
        THEN CheckResult(kind, "Unknown", name, "no NIC in context")
      ELSE IF ~NicExists(source, Value(context.nic))
        THEN CheckResult(kind, "Unknown", name, "NIC not found")
      ELSE IF addr_known /\ no_address /\ ~has_default_v4 /\ ~has_default_v6
        THEN CheckResult(kind, "Pass", name, "no IPs, no default route")
      ELSE IF ~addr_known
        THEN CheckResult(kind, "Unknown", name, "addr=?, def4=<>, def6=<>")
      ELSE CheckResult(kind, "Fail", name, "v4=<>, v6=<>, def4=<>, def6=<>")

\* config.cpp:822-829
RtThrottlingCheck(context, source, machine) ==
  LET kind == "RtThrottlingDisabled"
      name == "RT throttling disabled"
      value == Read(source, "/proc/sys/kernel/sched_rt_runtime_us")
  IN  IF ~Has(value)
        THEN CheckResult(kind, "Unknown", name,
                         "cannot read sched_rt_runtime_us")
      ELSE IF Value(value) = "-1"
        THEN CheckResult(kind, "Pass", name, "sched_rt_runtime_us=-1")
      ELSE CheckResult(kind, "Fail", name, "sched_rt_runtime_us=<value>")

\* config.cpp:839-846
TimerMigrationCheck(context, source, machine) ==
  LET kind == "TimerMigration"
      name == "Timer Migration disabled"
      value == Read(source, "/proc/sys/kernel/timer_migration")
  IN  IF ~Has(value)
        THEN CheckResult(kind, "Unknown", name, "cannot read timer_migration")
      ELSE IF Value(value) = "0"
        THEN CheckResult(kind, "Pass", name, "timer_migration=0")
      ELSE CheckResult(kind, "Fail", name, "timer_migration=<value>")

\* config.cpp:856-899; /proc/swaps as its lines, each as Trim leaves it
SwapDisabledCheck(context, source, machine) ==
  LET kind == "SwapDisabled"
      name == "Swap disabled"
      swaps == Read(source, "/proc/swaps")
      lines == Value(swaps)
      active_entries == {i \in 2 .. Len(lines) : lines[i] # ""}
  IN  IF ~Has(swaps)
        THEN CheckResult(kind, "Unknown", name, "cannot read /proc/swaps")
      ELSE IF lines = <<>>
        THEN CheckResult(kind, "Unknown", name,
                         "unexpected /proc/swaps format")
      ELSE IF active_entries = {}
        THEN CheckResult(kind, "Pass", name, "/proc/swaps empty")
      ELSE CheckResult(kind, "Fail", name, "active: <entries>")

\* std::string::find of "key=value" in /proc/cmdline, given as its tokens:
\* it is found in every token that holds key= followed by a text that
\* starts with value
CmdLineFind(cmdline, key, value) ==
  \E i \in 1 .. Len(cmdline) :
    /\ cmdline[i].key = key
    /\ Len(cmdline[i].value) >= Len(value)
    /\ SubSeq(cmdline[i].value, 1, Len(value)) = value

\* config.cpp:909-930
CStatesCappedCheck(context, source, machine) ==
  LET kind == "DeepCStatesCapped"
      name == "Deep C-states capped"
      cmdline == Read(source, "/proc/cmdline")
      intel_cstate == Read(source, "/sys/module/intel_idle/parameters/max_cstate")
      processor_cstate ==
        Read(source, "/sys/module/processor/parameters/max_cstate")
  IN  IF Has(cmdline) /\ CmdLineFind(Value(cmdline), "cpuidle.off", <<"1">>)
        THEN CheckResult(kind, "Pass", name, "cpuidle.off=1")
      ELSE IF /\ Has(cmdline)
              /\ \/ CmdLineFind(Value(cmdline), "intel_idle.max_cstate",
                                <<"1">>)
                 \/ CmdLineFind(Value(cmdline), "processor.max_cstate",
                                <<"1">>)
        THEN CheckResult(kind, "Pass", name, "cmdline caps to C1")
      ELSE IF Has(intel_cstate)
        THEN IF Value(intel_cstate) \in {"1", "0"}
               THEN CheckResult(kind, "Pass", name,
                                "intel_idle.max_cstate=<value>")
               ELSE CheckResult(kind, "Fail", name,
                                "intel_idle.max_cstate=<value>")
      ELSE IF Has(processor_cstate)
        THEN IF Value(processor_cstate) \in {"1", "0"}
               THEN CheckResult(kind, "Pass", name,
                                "processor.max_cstate=<value>")
               ELSE CheckResult(kind, "Fail", name,
                                "processor.max_cstate=<value>")
      ELSE CheckResult(kind, "Unknown", name, "no indicators")

\* config.cpp:940-955
TurboPolicyCheck(context, source, machine) ==
  LET kind == "TurboBoostPolicy"
      name == "Turbo/boost disabled"
      boost_value == Read(source, "/sys/devices/system/cpu/cpufreq/boost")
      intel_turbo == Read(source, "/sys/devices/system/cpu/intel_pstate/no_turbo")
  IN  IF Has(boost_value) /\ Value(boost_value) = "0"
        THEN CheckResult(kind, "Pass", name, "cpufreq/boost=0")
      ELSE IF Has(boost_value) /\ Value(boost_value) = "1"
        THEN CheckResult(kind, "Fail", name, "cpufreq/boost=1")
      ELSE IF Has(intel_turbo) /\ Value(intel_turbo) = "1"
        THEN CheckResult(kind, "Pass", name, "intel_pstate/no_turbo=1")
      ELSE IF Has(intel_turbo) /\ Value(intel_turbo) = "0"
        THEN CheckResult(kind, "Fail", name, "intel_pstate/no_turbo=0")
      ELSE CheckResult(kind, "Unknown", name, "no boost knobs")

\* config.cpp:965-1003; available_clocksource is given as the names in it
ClocksourceCheck(context, source, machine) ==
  LET kind == "ClocksourceStable"
      name == "Clocksource stable"
      base == "/sys/devices/system/clocksource/clocksource0/"
      current_source == Read(source, base \o "current_clocksource")
      available == Read(source, base \o "available_clocksource")
      value == Value(current_source)
  IN  IF ~Has(current_source)
        THEN CheckResult(kind, "Unknown", name,
                         "cannot read current_clocksource")
      ELSE IF value \in {"tsc", "hpet"}
        THEN CheckResult(kind, "Pass", name, value)
      ELSE IF value = "arch_sys_counter"
        THEN IF Has(available) /\ Len(Value(available)) <= 1
               THEN CheckResult(kind, "Pass", name,
                                "arch_sys_counter (ARM standard)")
               ELSE CheckResult(kind, "Pass", name, "arch_sys_counter")
      ELSE IF value = "jiffies"
        THEN CheckResult(kind, "Fail", name, "<detail>")
      ELSE CheckResult(kind, "Unknown", name,
                       IF value = "" /\ ~Has(available) THEN ""
                                                        ELSE "<detail>")

\* config.cpp:1013-1031
SmtSiblingIsolatedCheck(context, source, machine) ==
  LET kind == "SmtSiblingIsolated"
      name == "SMT sibling isolated/disabled"
      siblings_value ==
        Read(source,
             "/sys/devices/system/cpu/cpu<cpu>/topology/thread_siblings_list")
      siblings == ParseCpuList(Value(siblings_value)) \ {Value(context.cpu)}
      isolated_value == Read(source, "/sys/devices/system/cpu/isolated")
      isolated_set == ParseCpuList(Value(isolated_value))
  IN  IF ~Has(context.cpu)
        THEN CheckResult(kind, "Unknown", name, "no CPU subject")
      ELSE IF ~Has(siblings_value)
        THEN CheckResult(kind, "Unknown", name, "no thread_siblings_list")
      ELSE IF siblings = {}
        THEN CheckResult(kind, "Pass", name, "no sibling")
      ELSE IF ~Has(isolated_value)
        THEN CheckResult(kind, "Unknown", name, "cannot read isolated")
      ELSE IF \E sibling \in siblings : sibling \notin isolated_set
        THEN CheckResult(kind, "Fail", name, "sibling CPU<n> not isolated")
      ELSE CheckResult(kind, "Pass", name, "siblings all isolated")

\* ICheck::Evaluate of the check that reports kind
Evaluate(kind, context, source, machine) ==
  CASE kind = "PreemptRTActive" -> PreemptRTActiveCheck(context, source, machine)
    [] kind = "SwapDisabled" -> SwapDisabledCheck(context, source, machine)
    [] kind = "TimerMigration" -> TimerMigrationCheck(context, source, machine)
    [] kind = "RtThrottlingDisabled" ->
         RtThrottlingCheck(context, source, machine)
    [] kind = "ClocksourceStable" -> ClocksourceCheck(context, source, machine)
    [] kind = "CoreIsolated" -> CoreIsolatedCheck(context, source, machine)
    [] kind = "NohzFull" -> NohzFullCheck(context, source, machine)
    [] kind = "RcuNoCbs" -> RcuNoCbsCheck(context, source, machine)
    [] kind = "CpuGovernor" -> CpuGovernorCheck(context, source, machine)
    [] kind = "CpuFrequency" -> CpuFrequencyCheck(context, source, machine)
    [] kind = "IrqAffinityDefaultAvoidsRt" ->
         IrqAffinityDefaultAvoidsRtCheck(context, source, machine)
    [] kind = "NoUnrelatedIrqsOnRt" ->
         NoUnrelatedIrqsOnRtCheck(context, source, machine)
    [] kind = "SmtSiblingIsolated" ->
         SmtSiblingIsolatedCheck(context, source, machine)
    [] kind = "DeepCStatesCapped" -> CStatesCappedCheck(context, source, machine)
    [] kind = "TurboBoostPolicy" -> TurboPolicyCheck(context, source, machine)
    [] kind = "NicPresent" -> NicPresenceCheck(context, source, machine)
    [] kind = "NicLinkUp" -> NicLinkUpCheck(context, source, machine)
    [] kind = "NicQuiet" -> NicQuietCheck(context, source, machine)
    [] kind = "NicIrqsPinned" -> NicIrqsPinnedCheck(context, source, machine)
    [] kind = "RpsDisabled" -> RpsDisabledCheck(context, source, machine)

(***************************************************************************)
(* What an audit can meet.  Each check is given the files it consults,     *)
(* readable or not, with contents that reach each of its branches, and the *)
(* answers of the host it asks directly.                                   *)
(***************************************************************************)
\* one file: not readable, or readable with one of the contents
File(path, contents) == {<<>>} \cup {path :> content : content \in contents}

Both(sources, others) == {source @@ other : source \in sources,
                                            other \in others}

TextAlphabet == {"0", "1", "2", ",", "-", " ", "a"}

Texts == UNION {[1 .. length -> TextAlphabet] : length \in 0 .. MaxTextLen}

ExampleTexts ==
  { <<"1", "-", "3", ",", "5", ",", "7", "-", "8">>,
    <<"5", "-", "3">>,
    <<"2", ",", "a", "b", "c", ",", "4">>,
    <<" ", "1", " ", ",", " ", "2", " ">>,
    <<"1", "-", "2", "-", "3">>,
    <<"1", ",", "\n">> }

CpuListTexts == Texts \cup ExampleTexts

SomeCpuLists ==
  {<<>>, <<"0">>, <<"1">>, <<"0", "-", "1">>, <<"a">>, <<" ", "1", " ">>}

\* std::to_string of a natural number, as a text
RECURSIVE Decimal(_)
Decimal(n) ==
  LET digit == CHOOSE c \in Digits : DigitValue(c) = n % 10
  IN  IF n < 10 THEN <<digit>> ELSE Decimal(n \div 10) \o <<digit>>

Frequencies == {2400000, 2600000, 2520000, 2520001, 2280000, 2279999}

FrequencyTexts ==
  {Decimal(f) \o <<"\n">> : f \in Frequencies} \cup {<<"a", "b", "c">>}

InterruptRows ==
  { [numeric |-> TRUE, irq |-> 16, counts |-> <<0, 5>>,
     label |-> <<[names |-> {"eth0"}]>>],
    [numeric |-> TRUE, irq |-> 17, counts |-> <<3, 7>>,
     label |-> <<[names |-> {}]>>],
    [numeric |-> TRUE, irq |-> 18, counts |-> <<0, 2>>, label |-> <<>>],
    [numeric |-> TRUE, irq |-> 19, counts |-> <<4, 0>>,
     label |-> <<[names |-> {}]>>],
    [numeric |-> FALSE, irq |-> 0, counts |-> <<1, 1>>,
     label |-> <<[names |-> {}]>>] }

InterruptTables ==
  [header : {<<>>, <<0>>, <<1>>, <<0, 1>>},
   rows : UNION {[1 .. length -> InterruptRows] : length \in 0 .. 2}]

NicInterruptTables ==
  [header : {<<0, 1>>},
   rows : {<<>>} \cup {<<row>> : row \in InterruptRows}
            \cup {<<row, other>> : row \in {r \in InterruptRows : r.irq = 16},
                                   other \in {r \in InterruptRows :
                                                r.irq = 17}}]

CmdLines ==
  { <<>>,
    <<[key |-> "quiet", value |-> <<>>]>>,
    <<[key |-> "cpuidle.off", value |-> <<"1">>]>>,
    <<[key |-> "cpuidle.off", value |-> <<"0">>]>>,
    <<[key |-> "intel_idle.max_cstate", value |-> <<"1">>]>>,
    <<[key |-> "intel_idle.max_cstate", value |-> <<"1", "0">>]>>,
    <<[key |-> "intel_idle.max_cstate", value |-> <<"9">>]>>,
    <<[key |-> "quiet", value |-> <<>>],
      [key |-> "processor.max_cstate", value |-> <<"1">>]>> }

Routes4 ==
  { <<>>, <<[iface |-> "eth0", dest |-> "00000000"]>>,
    <<[iface |-> "eth0", dest |-> "0000A8C0"]>>,
    <<[iface |-> "eth1", dest |-> "00000000"]>> }

Routes6 ==
  { <<>>,
    <<[dest |-> "00000000000000000000000000000000", prefix_len |-> "00",
       device |-> "eth0"]>>,
    <<[dest |-> "00000000000000000000000000000000",
       prefix_len |-> "00000000", device |-> "eth0"]>>,
    <<[dest |-> "00000000000000000000000000000000", prefix_len |-> "0",
       device |-> "lo"]>> }

\* the files NicExists looks for
NicEvidence ==
  Both(File("/sys/class/net/<nic>/operstate", {"up", "down", ""}),
       Both(File("/sys/class/net/<nic>/carrier", {"1", "0"}),
            File("/sys/class/net/<nic>/address", {"aa:bb:cc:dd:ee:ff"})))

NicSeen ==
  Both(File("/sys/class/net/<nic>/operstate", {"up"}),
       File("/sys/class/net/<nic>/address", {"aa:bb:cc:dd:ee:ff"}))

MaskTexts == {<<>>, <<"0">>, <<"0", "0", ",", "0", "\n">>, <<"3">>}

\* the files the check that reports kind consults
Sources(kind) ==
  CASE kind = "PreemptRTActive" ->
         Both(File("/sys/kernel/realtime", {"1", "0", ""}),
              File("/boot/config-<release>",
                   {"CONFIG_PREEMPT_RT=y", "CONFIG_PREEMPT_RT_FULL=y",
                    "CONFIG_PREEMPT=y", ""}))
    [] kind = "SwapDisabled" ->
         File("/proc/swaps",
              {<<>>, <<"Filename">>, <<"Filename", "">>,
               <<"Filename", "/dev/sda2">>})
    [] kind = "TimerMigration" ->
         File("/proc/sys/kernel/timer_migration", {"0", "1"})
    [] kind = "RtThrottlingDisabled" ->
         File("/proc/sys/kernel/sched_rt_runtime_us", {"-1", "950000"})
    [] kind = "ClocksourceStable" ->
         Both(File("/sys/devices/system/clocksource/clocksource0/"
                     \o "current_clocksource",
                   {"tsc", "hpet", "arch_sys_counter", "jiffies", "acpi_pm",
                    ""}),
              File("/sys/devices/system/clocksource/clocksource0/"
                     \o "available_clocksource",
                   {<<"arch_sys_counter">>, <<"tsc", "hpet">>}))
    [] kind = "CoreIsolated" ->
         File("/sys/devices/system/cpu/isolated", CpuListTexts)
    [] kind = "NohzFull" ->
         Both(File("/sys/devices/system/cpu/nohz_full", SomeCpuLists),
              File("cmdline:nohz_full", SomeCpuLists))
    [] kind = "RcuNoCbs" ->
         Both(File("/sys/devices/system/cpu/rcu_nocbs", SomeCpuLists),
              File("cmdline:rcu_nocbs", SomeCpuLists))
    [] kind = "CpuGovernor" ->
         File("/sys/devices/system/cpu/cpu<cpu>/cpufreq/scaling_governor",
              {"performance", "powersave"})
    [] kind = "CpuFrequency" ->
         Both(Both(File("/sys/devices/system/cpu/cpu<cpu>/cpufreq/"
                          \o "scaling_cur_freq", FrequencyTexts),
                   File("/sys/devices/system/cpu/cpu<cpu>/cpufreq/"
                          \o "scaling_min_freq", FrequencyTexts)),
              Both(File("/sys/devices/system/cpu/cpu<cpu>/cpufreq/"
                          \o "scaling_max_freq", FrequencyTexts),
                   File("/proc/cpuinfo", {"cpu MHz", ""})))
    [] kind = "IrqAffinityDefaultAvoidsRt" ->
         File("cmdline:irqaffinity", SomeCpuLists)
    [] kind = "NoUnrelatedIrqsOnRt" ->
         File("/proc/interrupts", InterruptTables)
    [] kind = "SmtSiblingIsolated" ->
         Both(File("/sys/devices/system/cpu/cpu<cpu>/topology/"
                     \o "thread_siblings_list", SomeCpuLists),
              File("/sys/devices/system/cpu/isolated", SomeCpuLists))
    [] kind = "DeepCStatesCapped" ->
         Both(File("/proc/cmdline", CmdLines),
              Both(File("/sys/module/intel_idle/parameters/max_cstate",
                        {"1", "0", "9"}),
                   File("/sys/module/processor/parameters/max_cstate",
                        {"1", "3"})))
    [] kind = "TurboBoostPolicy" ->
         Both(File("/sys/devices/system/cpu/cpufreq/boost", {"0", "1", ""}),
              File("/sys/devices/system/cpu/intel_pstate/no_turbo",
                   {"0", "1"}))
    [] kind = "NicPresent" -> NicEvidence
    [] kind = "NicLinkUp" -> NicEvidence
    [] kind = "NicQuiet" ->
         Both(NicSeen, Both(File("/proc/net/route", Routes4),
                            File("/proc/net/ipv6_route", Routes6)))
    [] kind = "NicIrqsPinned" ->
         Both(Both(NicSeen, File("/proc/interrupts", NicInterruptTables)),
              Both(File("/proc/irq/16/smp_affinity_list", SomeCpuLists),
                   File("/proc/irq/17/smp_affinity_list", SomeCpuLists)))
    [] kind = "RpsDisabled" ->
         Both(NicSeen,
              Both(File("/sys/class/net/<nic>/queues/rx-0/rps_cpus",
                        MaskTexts),
                   File("/sys/class/net/<nic>/queues/rx-1/rps_cpus",
                        MaskTexts)))

\* what the host answers when it is asked directly: uname() (its version
\* names PREEMPT_RT or not), the rx queue directories of the interface in
\* the file system, getifaddrs()
Unames == {"failed", "PREEMPT_RT", "generic"}

QueueDirectories == {<<>>, <<<<>>>>, <<<<"rx-0">>>>, <<<<"rx-0", "rx-1">>>>}

InterfaceAddresses == {"failed", "none", "some"}

HostStates ==
  [uname : Unames, queues : QueueDirectories, ifaddrs : InterfaceAddresses]

NotAsked == [uname |-> "failed", queues |-> <<>>, ifaddrs |-> "failed"]

\* the answers the check that reports kind can get from the host
Hosts(kind) ==
  CASE kind = "PreemptRTActive" ->
         {[NotAsked EXCEPT !.uname = u] : u \in Unames}
    [] kind = "RpsDisabled" ->
         {[NotAsked EXCEPT !.queues = q] : q \in QueueDirectories}
    [] kind = "NicQuiet" ->
         {[NotAsked EXCEPT !.ifaddrs = a] : a \in InterfaceAddresses}
    [] OTHER -> {NotAsked}

(***************************************************************************)
(* ReportSystemConfiguration, config.cpp:1185-1269, check by check.        *)
(***************************************************************************)
system_checks_core_first ==
  <<"PreemptRTActive", "SwapDisabled", "TimerMigration", "CoreIsolated",
    "RtThrottlingDisabled", "ClocksourceStable">>

system_checks ==
  <<"PreemptRTActive", "SwapDisabled", "TimerMigration",
    "RtThrottlingDisabled", "ClocksourceStable">>

core_checks ==
  <<"CoreIsolated", "NohzFull", "RcuNoCbs", "CpuGovernor", "CpuFrequency",
    "IrqAffinityDefaultAvoidsRt", "NoUnrelatedIrqsOnRt",
    "SmtSiblingIsolated", "DeepCStatesCapped", "TurboBoostPolicy">>

nic_checks == <<"NicLinkUp", "NicQuiet", "NicIrqsPinned", "RpsDisabled">>

\* an empty name stands for "--nic" given an empty string
AuditNicInputs == NicInputs \cup {""}

AuditCpuInputs == CpuInputs \cup {0}

\* main.cpp:433-436 and config.cpp:1185-1206
AuditCall ==
  /\ aPc = "idle"
  /\ \E cpu \in AuditCpuInputs, nicName \in AuditNicInputs :
       IF ValidCpu(cpu)
         THEN /\ checkContext' =
                   [cpu |-> <<cpu>>,
                    nic |-> IF nicName = "" THEN <<>> ELSE <<nicName>>]
              /\ aPc' = "system"
              /\ aIndex' = 1
         ELSE /\ aPc' = "done"
              /\ UNCHANGED <<aIndex, checkContext>>
  /\ UNCHANGED <<host, dataSource, result, cpuSet, presence, emitted>>
  /\ UNCHANGED <<envVars, mainVars, threadVars>>

\* the check the audit has come to
CurrentCheck ==
  CASE aPc = "system" -> system_checks[aIndex]
    [] aPc = "core" -> core_checks[aIndex]
    [] aPc = "nic" -> "NicPresent"
    [] aPc = "dependent" -> nic_checks[aIndex]

NoResult == [kind |-> "none", status |-> "none", reason |-> ""]

\* auto result = check->Evaluate(checkContext, data), config.cpp:1219,
\* 1239, 1248 and 1261
EvaluateCheck ==
  /\ aPc \in {"system", "core", "nic", "dependent"}
  /\ result = NoResult
  /\ \E source \in Sources(CurrentCheck), machine \in Hosts(CurrentCheck) :
       /\ dataSource' = source
       /\ host' = machine
       /\ result' = Evaluate(CurrentCheck, checkContext, source, machine)
       /\ cpuSet' =
            IF CurrentCheck = "CoreIsolated"
                 /\ Has(Read(source, "/sys/devices/system/cpu/isolated"))
              THEN ParseCpuList(
                     Trim(Value(Read(source,
                                     "/sys/devices/system/cpu/isolated"))))
              ELSE {}
  /\ presence' = IF CurrentCheck = "NicPresent" THEN result'.status
                                                ELSE presence
  /\ UNCHANGED <<aPc, aIndex, checkContext, emitted>>
  /\ UNCHANGED <<envVars, mainVars, threadVars>>

nic_ok_always == TRUE

\* config.cpp:1250
nic_ok == presence = "Pass"

\* where the audit goes once the result of the current check is printed
AfterPrint ==
  CASE aPc = "system" ->
         IF aIndex < Len(system_checks) THEN <<"system", aIndex + 1>>
                                        ELSE <<"core", 1>>
    [] aPc = "core" ->
         IF aIndex < Len(core_checks) THEN <<"core", aIndex + 1>>
         ELSE IF Has(checkContext.nic) THEN <<"nic", 1>>
         ELSE <<"done", 1>>
    [] aPc = "nic" ->
         IF nic_ok THEN <<"dependent", 1>> ELSE <<"done", 1>>
    [] aPc = "dependent" ->
         IF aIndex < Len(nic_checks) THEN <<"dependent", aIndex + 1>>
                                     ELSE <<"done", 1>>

\* PrintResult(result), config.cpp:251-262, and the end of the iteration:
\* the result goes out of scope and the audit moves on
PrintResult ==
  /\ aPc \in {"system", "core", "nic", "dependent"}
  /\ result # NoResult
  /\ emitted' = Append(emitted, result.kind)
  /\ result' = NoResult
  /\ dataSource' = <<>>
  /\ host' = NotAsked
  /\ cpuSet' = {}
  /\ aPc' = AfterPrint[1]
  /\ aIndex' = AfterPrint[2]
  /\ UNCHANGED <<checkContext, presence>>
  /\ UNCHANGED <<envVars, mainVars, threadVars>>

AuditNext == AuditCall \/ EvaluateCheck \/ PrintResult

AuditSpec == Init /\ [][AuditNext]_vars

(***************************************************************************)
(* Properties.                                                             *)
(***************************************************************************)
\* the threads of the measurement
NoThreadSpawned ==
  sPc = "unspawned" /\ rPc = "unspawned" /\ repPc = "unspawned"

\* the events of main's history
Did(event) == \E i \in 1 .. Len(mainLog) : mainLog[i] = event

Before(first, second) ==
  \A j \in 1 .. Len(mainLog) :
    mainLog[j] = second => \E i \in 1 .. (j - 1) : mainLog[i] = first

\* C1: Sender catch-up.  With a positive period, the deadline the sender
\* sleeps until is old_next + k * send_sleep_ns for the smallest k >= 1 that
\* makes it >= current, the clock sample of the iteration: it is never
\* earlier than current, it lies on the grid anchored at the initial next,
\* and periods that were missed are skipped.
C1_SenderCatchUp ==
  (sPc = "sleep" /\ params.SendSleep > 0) =>
    LET deadline == ToEpoch(sNext)
        period == params.SendSleep
        k == (deadline - sOldNext) \div period
    IN  /\ deadline = sOldNext + k * period
        /\ k >= 1
        /\ deadline >= sCurrent
        /\ k > 1 => deadline - period < sCurrent
        /\ (deadline - sNext0) % period = 0
        /\ sNext.tv_nsec \in 0 .. (NanoPerSec - 1)

\* a wake 4.3 periods after old_next: the deadline is 5 periods after it,
\* past the roll of the clock's second
C1_Witness ==
  /\ sPc = "sleep"
  /\ params.SendSleep = DefaultSendSleepMicroseconds * NanoPerMicro
  /\ sCurrent = sOldNext + 4300000
  /\ ToEpoch(sNext) = sOldNext + 5 * params.SendSleep
  /\ sNext.tv_sec = 1

\* the indexes below n that are neither the first nor the last of a run of
\* `iterations` iterations, in order
MiddleIndexes(n, iterations) ==
  LET middle == {i \in 0 .. (n - 1) : i # 0 /\ i + 1 # iterations}
  IN  [j \in 1 .. Cardinality(middle) |-> j]

\* the clock samples the sender has taken
SenderSamples == IF sPc \in {"catchup", "sleep"} THEN sIndex + 1 ELSE sIndex

\* C2: First/last exclusion.  A worker records a sample in iteration i iff
\* i is neither 0 nor iterations - 1; so a sender that has run all of
\* N >= 2 iterations without an error has recorded exactly N - 2
\* observations (none for N = 1), and the receiver likewise after N receives.
C2_FirstLastExclusion ==
  /\ sendData = MiddleIndexes(SenderSamples, params.Iterations)
  /\ receiveData = MiddleIndexes(rIndex, params.Iterations)
  /\ (sPc = "done" /\ ~sError /\ sIndex = params.Iterations) =>
       Len(sendData) = (IF params.Iterations >= 2
                          THEN params.Iterations - 2 ELSE 0)
  /\ (rPc = "done" /\ rIndex = params.Iterations) =>
       Len(receiveData) = (IF params.Iterations >= 2
                             THEN params.Iterations - 2 ELSE 0)

C2_Witness ==
  /\ params.Iterations = 3
  /\ sPc = "done" /\ ~sError /\ sIndex = 3 /\ sendData = <<1>>
  /\ rPc = "done" /\ rIndex = 3 /\ receiveData = <<1>>

\* a worker thread has ended, or was never started
Exited(pc) == pc \in {"unspawned", "done"}

\* once testRunning is false no worker enters an iteration, and once
\* liveReport is false the reporter begins no tick
NoNewIteration ==
  [][/\ ~testRunning => ~(sPc = "loop" /\ sPc' \in {"send", "sample"})
     /\ ~testRunning => ~(rPc = "loop" /\ rPc' = "receive")
     /\ ~liveReport => ~(repPc = "loop" /\ repPc' = "tick")]_vars

\* C3: Cooperative cancellation.  Once testRunning is false the sender and
\* the receiver start no new iteration and exit; once liveReport is false
\* the reporter does at most the tick in flight and exits.  Stated for a run
\* with a positive period.
C3_Cancellation ==
  /\ NoNewIteration
  /\ (~testRunning /\ sPc # "unspawned" /\ params.SendSleep > 0)
       ~> (sPc = "done" /\ Exited(rPc))
  /\ (~liveReport) ~> (repPc = "done")

\* C4: A failing receive ends the run.  When Receive() returns false the
\* receiver records nothing for the iteration, does not call Receive() again
\* and clears testRunning; then the sender, the reporter and main terminate.
C4_FailedReceiveEndsRun ==
  /\ [][rFailed' /\ ~rFailed =>
          /\ rPc' = "done" /\ ~testRunning'
          /\ receiveData' = receiveData]_vars
  /\ [](rFailed => rPc = "done")
  /\ rFailed ~> (sPc = "done" /\ repPc = "done" /\ mainPc = "returned")

\* C5: Setup failure ends the run.  A worker whose priority or affinity
\* cannot be set records no sample and clears testRunning, and the run
\* terminates: the other worker exits, the joins of main return and the
\* reporter stops, in NIC mode too.  Stated for a run with a positive period.
C5_SetupFailureEndsRun ==
  /\ [](sError /\ sIndex = 0 /\ sPc = "done" => sendData = <<>>)
  /\ [](rError => receiveData = <<>>)
  /\ ((sError \/ rError) /\ params.SendSleep > 0)
       ~> (sPc = "done" /\ Exited(rPc) /\ repPc = "done"
           /\ mainPc = "returned")

\* main got as far as the checks of main.cpp:420: the arguments parsed and
\* neither --help nor --version ended the program
Validated == parsed = "ok" /\ ~showHelp /\ ~showVersion

\* C6: Orchestrator-level failures abort before any worker starts.  With
\* both --no-config and --only-config, or with an effective uid other than
\* 0, main returns 1 and has run no audit, no mlockall and no thread; when
\* mlockall fails main returns 1, has started no thread and has not opened
\* /dev/cpu_dma_latency.
C6_OrchestratorFailuresAbort ==
  /\ (parsed = "ok" /\ ((noConfig /\ onlyConfig) \/ euid # 0)) =>
       /\ mainLog = <<>> /\ audit = "none" /\ mlock = "none"
       /\ NoThreadSpawned
  /\ (mainPc = "returned" /\ Validated
        /\ ((noConfig /\ onlyConfig) \/ euid # 0)) => returned = 1
  /\ mlock = "failed" =>
       /\ mainPc = "returned" /\ returned = 1
       /\ NoThreadSpawned
       /\ ~Did("open_latency") /\ ~dmaLatencyOpen /\ latencyFd = -1

C6_Witness ==
  /\ mainPc = "returned" /\ returned = 1
  /\ Validated /\ noConfig /\ onlyConfig /\ euid = 0

\* C7: Exit code.  The process exits with 1 on an argument error,
\* conflicting flags, non-root, an mlockall failure or a worker thread that
\* ended with an error; it exits with 0 only on success: help, version,
\* --only-config, or a measurement in which no worker reported an error.
C7_ExitCode ==
  mainPc = "returned" =>
    LET argumentError == parsed = "error"
        helpOrVersion == parsed = "ok" /\ (showHelp \/ showVersion)
        conflict == Validated /\ noConfig /\ onlyConfig
        nonRoot == Validated /\ euid # 0
        auditOnly == Validated /\ ~noConfig /\ euid = 0 /\ onlyConfig
        workerError == sError \/ rError
    IN  /\ (argumentError \/ conflict \/ nonRoot \/ mlock = "failed"
              \/ workerError) => returned = 1
        /\ returned = 0 =>
             helpOrVersion \/ auditOnly \/ (finalRender /\ ~workerError)

\* C8: Audit/measurement sequencing.  With --only-config the audit runs and
\* main returns 0 without mlockall, without opening /dev/cpu_dma_latency and
\* without a thread; with --no-config no audit runs; with neither flag the
\* audit is complete before mlockall and before any thread is spawned.
C8_AuditSequencing ==
  /\ onlyConfig =>
       /\ ~Did("mlockall") /\ mlock = "none"
       /\ ~Did("open_latency") /\ ~dmaLatencyOpen
       /\ NoThreadSpawned
  /\ (mainPc = "returned" /\ Validated /\ onlyConfig /\ ~noConfig
        /\ euid = 0) => (Did("audit") /\ audit # "none" /\ returned = 0)
  /\ noConfig => (~Did("audit") /\ audit = "none")
  /\ ~noConfig =>
       /\ Before("audit", "mlockall")
       /\ Before("audit", "spawn_receiver")
       /\ Before("audit", "spawn_sender")
       /\ Before("audit", "spawn_report")
       /\ (mlock # "none" \/ ~NoThreadSpawned) => audit # "none"

C8_Witness ==
  /\ ~noConfig /\ ~onlyConfig
  /\ mainLog = <<"audit", "mlockall", "open_latency", "spawn_receiver",
                 "spawn_sender", "spawn_report">>

\* C9: Timing parameters are positive when measurement starts.  For every
\* --send-sleep and --bucket-width the program accepts, send_sleep_ns > 0
\* and bucket_width_ns > 0 once a measurement thread is spawned.
C9_TimingPositive ==
  ~NoThreadSpawned => (params.SendSleep > 0 /\ params.BucketWidth > 0)

\* C10: CPU pins are valid when measurement starts.  Whenever the sender or
\* the receiver thread is spawned, send_cpu and receive_cpu are both within
\* [0, online_cpu_count).
C10_CpuPinsValid ==
  (sPc # "unspawned" \/ rPc # "unspawned") =>
    /\ params.SendCpu \in 0 .. (CpuCount - 1)
    /\ params.ReceiveCpu \in 0 .. (CpuCount - 1)

\* the checks that return "no CPU subject" without a CPU in the context
NeedsCpu ==
  {"CoreIsolated", "NohzFull", "RcuNoCbs", "CpuGovernor", "CpuFrequency",
   "IrqAffinityDefaultAvoidsRt", "NoUnrelatedIrqsOnRt", "SmtSiblingIsolated",
   "NicIrqsPinned"}

\* the checks that return "no NIC in context" without a NIC in the context
NeedsNic ==
  {"NicPresent", "NicLinkUp", "NicQuiet", "NicIrqsPinned", "RpsDisabled"}

\* a check has been evaluated and its result is not yet printed
Evaluated == result # NoResult

\* C11: Check determinism.  The result of a check is a function of the
\* context and of the answers of the data source only: whatever the host
\* answers to uname(), to the look-up of the queue directories in the file
\* system and to getifaddrs(), the check returns the result it returned.
C11_CheckDeterminism ==
  Evaluated =>
    \A machine \in HostStates :
      Evaluate(result.kind, checkContext, dataSource, machine) = result

\* C12: Missing evidence yields Unknown.  A check whose subject is absent
\* from the context, or that can read none of the files and cmdline keys it
\* consults, returns Unknown with a non-empty reason.
C12_MissingEvidenceUnknown ==
  LET subjectAbsent ==
        \/ result.kind \in NeedsCpu /\ ~Has(checkContext.cpu)
        \/ result.kind \in NeedsNic /\ ~Has(checkContext.nic)
      nothingReadable == DOMAIN dataSource = {}
  IN  (Evaluated /\ (subjectAbsent \/ nothingReadable)) =>
        (result.status = "Unknown" /\ result.reason # "")

\* the results printed so far
Emitted(kind) == \E i \in 1 .. Len(emitted) : emitted[i] = kind

\* C13: NIC gating.  NicLinkUp, NicQuiet, NicIrqsPinned and RpsDisabled are
\* evaluated and reported only after NicPresent returned Pass in the same
\* audit; NicPresent is Pass when the NIC is readable and Unknown, never
\* Fail, when it is not, and then none of the four produces a result.
C13_NicGating ==
  LET dependent == {"NicLinkUp", "NicQuiet", "NicIrqsPinned", "RpsDisabled"}
  IN  /\ \A i \in 1 .. Len(emitted) :
           emitted[i] \in dependent =>
             /\ presence = "Pass"
             /\ \E j \in 1 .. (i - 1) : emitted[j] = "NicPresent"
      /\ result.kind \in dependent =>
           (presence = "Pass" /\ Emitted("NicPresent"))
      /\ result.kind = "NicPresent" =>
           /\ presence = result.status
           /\ result.status =
                IF \E path \in DOMAIN dataSource : TRUE THEN "Pass"
                                                        ELSE "Unknown"
      /\ presence \in {"none", "Pass", "Unknown"}
      /\ (aPc = "done" /\ presence = "Unknown") =>
           (emitted[Len(emitted)] = "NicPresent"
              /\ \A kind \in dependent : ~Emitted(kind))

C13_Witness ==
  /\ aPc = "done"
  /\ presence = "Unknown"
  /\ Value(checkContext.nic) = "eth0"
  /\ emitted[Len(emitted)] = "NicPresent"

\* C14: Audit order.  The results of one audit are printed in the order
\* System, Core, NIC given below, each check at most once; the NIC part is
\* absent, or NicPresent alone, or complete.
C14_AuditOrder ==
  LET order ==
        <<"PreemptRTActive", "SwapDisabled", "TimerMigration",
          "RtThrottlingDisabled", "ClocksourceStable", "CoreIsolated",
          "NohzFull", "RcuNoCbs", "CpuGovernor", "CpuFrequency",
          "IrqAffinityDefaultAvoidsRt", "NoUnrelatedIrqsOnRt",
          "SmtSiblingIsolated", "DeepCStatesCapped", "TurboBoostPolicy",
          "NicPresent", "NicLinkUp", "NicQuiet", "NicIrqsPinned",
          "RpsDisabled">>
  IN  /\ Len(emitted) <= Len(order)
      /\ emitted = SubSeq(order, 1, Len(emitted))
      /\ Evaluated => result.kind = order[Len(emitted) + 1]
      /\ aPc = "done" => Len(emitted) \in {0, 15, 16, 20}

C14_Witness ==
  aPc = "done" /\ Len(emitted) = 20 /\ emitted[20] = "RpsDisabled"

\* C15: The NIC section is emitted only if a NIC is provided.  The audit
\* main runs in cyclic-only mode, with the NIC name at its sentinel, comes
\* to no NIC check: none is evaluated and none is printed.
C15_NoNicSectionWithoutNic ==
  checkContext.nic = <<NoNicSelected>> =>
    /\ aPc \notin {"nic", "dependent"}
    /\ result.kind \notin NeedsNic
    /\ \A kind \in NeedsNic : ~Emitted(kind)

\* C16: ParseCpuList returns exactly the CPUs of the well-formed tokens of
\* its comma-separated input: N gives {N}, N-M gives the integers between
\* min(N, M) and max(N, M), whitespace around a token is ignored, and every
\* other token gives nothing.
C16_ParseCpuList ==
  LET isolated == Read(dataSource, "/sys/devices/system/cpu/isolated")
      IsNumber(text) ==
        text # <<>> /\ \A i \in 1 .. Len(text) : text[i] \in Digits
      Between(n, m) == IF n <= m THEN n .. m ELSE m .. n
      WellFormed(rawToken) ==
        LET token == Trim(rawToken)
            dash == Find(token, "-")
            first == Trim(SubSeq(token, 1, dash - 1))
            second == Trim(SubSeq(token, dash + 1, Len(token)))
        IN  IF IsNumber(token) THEN {DecimalValue(token)}
            ELSE IF dash > 0 /\ IsNumber(first) /\ IsNumber(second)
              THEN Between(DecimalValue(first), DecimalValue(second))
            ELSE {}
      tokens == SplitComma(Value(isolated))
  IN  (result.kind = "CoreIsolated" /\ Has(isolated)) =>
        cpuSet = UNION {WellFormed(tokens[i]) : i \in 1 .. Len(tokens)}

\* C17: CoreIsolated with CPU0.  With cpu 0 the check fails with "CPU0
\* selected; choose non-CPU0" whatever the isolated file holds; with another
\* cpu and a readable file it passes iff the cpu is in the parsed set and
\* fails otherwise.
C17_CoreIsolatedCpu0 ==
  (/\ result.kind = "CoreIsolated"
   /\ Has(Read(dataSource, "/sys/devices/system/cpu/isolated"))) =>
    IF Value(checkContext.cpu) = 0
      THEN /\ result.status = "Fail"
           /\ result.reason = "CPU0 selected; choose non-CPU0"
      ELSE result.status =
             IF Value(checkContext.cpu) \in cpuSet THEN "Pass" ELSE "Fail"

\* C18: CpuFrequency decision.  With scaling_cur_freq, scaling_min_freq and
\* scaling_max_freq all readable integers the status is Pass iff min = max
\* and |cur - max| is within 5% of max, else Fail; with only some of them it
\* is Unknown; with none it is Unknown whatever /proc/cpuinfo holds.
C18_CpuFrequency ==
  LET base == "/sys/devices/system/cpu/cpu<cpu>/cpufreq/"
      cur == read_int64(dataSource, base \o "scaling_cur_freq")
      min == read_int64(dataSource, base \o "scaling_min_freq")
      max == read_int64(dataSource, base \o "scaling_max_freq")
      drift == IF Value(cur) >= Value(max) THEN Value(cur) - Value(max)
                                           ELSE Value(max) - Value(cur)
  IN  result.kind = "CpuFrequency" =>
        IF Has(cur) /\ Has(min) /\ Has(max)
          THEN result.status =
                 IF Value(min) = Value(max) /\ drift * 100 <= Value(max) * 5
                   THEN "Pass"
                   ELSE "Fail"
          ELSE result.status = "Unknown"

C18_Witness ==
  LET base == "/sys/devices/system/cpu/cpu<cpu>/cpufreq/"
  IN  /\ result.kind = "CpuFrequency"
      /\ read_int64(dataSource, base \o "scaling_cur_freq") = <<2600000>>
      /\ read_int64(dataSource, base \o "scaling_min_freq") = <<2400000>>
      /\ read_int64(dataSource, base \o "scaling_max_freq") = <<2400000>>
      /\ result.status = "Fail"

\* C19: C-state veto lifetime.  A descriptor of /dev/cpu_dma_latency that
\* could be opened is open before the first thread is spawned and stays open
\* through the joins and the final render, until main is left; it is closed
\* once main has returned, on every way out.  A device that cannot be
\* stat-ed, opened or written is no failure: main goes on to the run.
C19_LatencyDescriptorLifetime ==
  /\ dmaLatencyOpen <=> latencyFd >= 0
  /\ Did("open_latency") =>
       /\ mainPc # "returned" => dmaLatencyOpen
       /\ Before("open_latency", "spawn_receiver")
       /\ Before("open_latency", "spawn_sender")
       /\ Before("open_latency", "spawn_report")
  /\ (Did("final_render") /\ Did("open_latency") /\ mainPc # "returned") =>
       dmaLatencyOpen
  /\ mainPc = "returned" => ~dmaLatencyOpen
  /\ mainPc = "mode" => exitCode = 0

C19_Witness ==
  /\ mainPc = "returned"
  /\ Did("open_latency")
  /\ Did("join_report")
  /\ Did("final_render")
  /\ ~dmaLatencyOpen

\* C20: The sender's next deadline never decreases.  From its first advance
\* in an iteration to the absolute sleep, next is >= the value the previous
\* iteration slept until (the clock at start, for the first iteration), and
\* strictly greater when send_sleep_ns > 0.
C20_DeadlineMonotonic ==
  (sPc \in {"catchup", "sleep"} /\ params.SendSleep >= 0) =>
    /\ ToEpoch(sNext) >= sOldNext
    /\ params.SendSleep > 0 => ToEpoch(sNext) > sOldNext

C20_Witness ==
  /\ sPc = "sleep"
  /\ sIndex >= 1
  /\ params.SendSleep > 0
  /\ ToEpoch(sNext) > sOldNext + params.SendSleep

\* C21: Linear termination order.  In both modes liveReport is cleared only
\* after every worker thread that was spawned has been joined (and has left
\* its function), the reporter is joined only after liveReport was cleared,
\* and the final render happens only after the reporter was joined.
C21_TerminationOrder ==
  /\ Did("stop_report") =>
       /\ ~liveReport
       /\ Did("join_sender") /\ sPc = "done"
       /\ Did("spawn_receiver") => (Did("join_receiver") /\ rPc = "done")
  /\ Before("join_sender", "stop_report")
  /\ Did("spawn_report") /\ ~Did("stop_report") => liveReport
  /\ Did("join_report") => (Did("stop_report") /\ repPc = "done")
  /\ Before("stop_report", "join_report")
  /\ finalRender => Did("join_report")
  /\ Before("join_report", "final_render")

\* a NIC run that went through both worker joins, the reporter's join and
\* the final render
C21_Witness ==
  /\ finalRender
  /\ Did("join_receiver") /\ Did("join_sender") /\ Did("join_report")
  /\ Len(sendData) > 0

\* C22: Writers of test_running.  The orchestrator stores false into
\* testRunning only after every worker thread it spawned has been joined, in
\* NIC mode after both the receiver and the sender, so that no worker is
\* still running when the orchestrator clears the flag.
C22_OrchestratorStoresAfterJoins ==
  Did("stop_test") =>
    /\ Did("join_sender") /\ sPc = "done"
    /\ Did("spawn_receiver") => (Did("join_receiver") /\ rPc = "done")

\* C22, as the code has it: testRunning is false only after the sender's or
\* the receiver's error path, a failed receive, or the orchestrator's store;
\* the orchestrator stores after joining the cyclic thread in cyclic mode
\* and after joining the receiver in NIC mode, where the sender may still
\* be running.
C22_WritersOfTestRunning ==
  /\ ~testRunning => (sError \/ rError \/ rFailed \/ Did("stop_test"))
  /\ Did("stop_test") =>
       IF NicMode
         THEN Did("join_receiver") /\ rPc = "done"
         ELSE Did("join_sender") /\ sPc = "done"

\* the orchestrator has cleared testRunning in NIC mode while the sender is
\* inside its loop, and nothing else had cleared it
C22_Witness ==
  /\ Did("stop_test") /\ NicMode
  /\ ~sError /\ ~rError /\ ~rFailed
  /\ sPc \in {"send", "sample", "catchup", "sleep"}

\* C23: Thread configuration precedes sampling.  A worker whose SCHED_FIFO
\* priority and CPU affinity were not both set successfully has taken no
\* clock sample, has added no observation and has called neither Send() nor
\* Receive(): it is not yet configured, or it has left through its error
\* path.
C23_ConfigurationPrecedesSampling ==
  /\ sConfigured # "ok" =>
       /\ sPc \in {"unspawned", "configure", "done"}
       /\ sendData = <<>> /\ sCurrent = 0 /\ ToEpoch(sNext) = 0
       /\ inFlight = 0
       /\ sConfigured \notin {"no"} => (sError /\ sPc = "done")
  /\ rConfigured # "ok" =>
       /\ rPc \in {"unspawned", "configure", "done"}
       /\ receiveData = <<>> /\ rPrevious = 0 /\ rIndex = 0
       /\ ~rFailed
       /\ rConfigured \notin {"no"} => (rError /\ rPc = "done")

\* the receiver's affinity call failed, and the sender, configured, has
\* recorded an observation
C23_Witness ==
  /\ rConfigured = "affinity_failed"
  /\ sConfigured = "ok" /\ Len(sendData) > 0

\* a data source that answers the sysfs path and the cmdline key with the
\* given optional values, and nothing else
DualSource(path, key, sysfs, cmdline) ==
  (IF Has(sysfs) THEN path :> Value(sysfs) ELSE <<>>)
    @@ (IF Has(cmdline) THEN ("cmdline:" \o key) :> Value(cmdline) ELSE <<>>)

\* the status the dual-source policy gives a cpu
DualSourcePolicy(cpu, sysfs, cmdline) ==
  IF Has(sysfs)
    THEN IF cpu \in ParseCpuList(Value(sysfs)) THEN "Pass" ELSE "Fail"
  ELSE IF Has(cmdline)
    THEN IF cpu \in ParseCpuList(Value(cmdline)) THEN "Pass" ELSE "Fail"
  ELSE "Unknown"

\* C24: NohzFull and RcuNoCbs apply the same dual-source policy: the sysfs
\* entry when it is readable, the cmdline parameter only when it is not,
\* Pass iff the cpu is in the list parsed from that source, Fail if not,
\* Unknown when neither exists.  For the same cpu and the same pair of sysfs
\* content and cmdline value under their respective names, the two checks
\* return the same status.
C24_SameDualSourcePolicy ==
  /\ (Evaluated /\ result.kind = "NohzFull") =>
       LET sysfs == Read(dataSource, "/sys/devices/system/cpu/nohz_full")
           cmdline == Read(dataSource, "cmdline:nohz_full")
       IN  /\ result.status =
                DualSourcePolicy(Value(checkContext.cpu), sysfs, cmdline)
           /\ result.status =
                RcuNoCbsCheck(checkContext,
                              DualSource("/sys/devices/system/cpu/rcu_nocbs",
                                         "rcu_nocbs", sysfs, cmdline),
                              host).status
  /\ (Evaluated /\ result.kind = "RcuNoCbs") =>
       LET sysfs == Read(dataSource, "/sys/devices/system/cpu/rcu_nocbs")
           cmdline == Read(dataSource, "cmdline:rcu_nocbs")
       IN  /\ result.status =
                DualSourcePolicy(Value(checkContext.cpu), sysfs, cmdline)
           /\ result.status =
                NohzFullCheck(checkContext,
                              DualSource("/sys/devices/system/cpu/nohz_full",
                                         "nohz_full", sysfs, cmdline),
                              host).status

\* NohzFull was evaluated with a sysfs list that holds the cpu and a cmdline
\* value that does not
C24_Witness ==
  /\ Evaluated /\ result.kind = "NohzFull" /\ result.status = "Pass"
  /\ Read(dataSource, "/sys/devices/system/cpu/nohz_full") = <<(<<"0">>)>>
  /\ Read(dataSource, "cmdline:nohz_full") = <<(<<"1">>)>>

\* the cmdline carries key with exactly the given value
CmdLineCarries(cmdline, key, value) ==
  \E i \in 1 .. Len(cmdline) :
    cmdline[i].key = key /\ cmdline[i].value = value

\* C25: DeepCStatesCapped.  Pass when the cmdline carries cpuidle.off with
\* value 1, or intel_idle.max_cstate or processor.max_cstate with value
\* exactly 1; otherwise, when a module parameter max_cstate is readable
\* (intel_idle first, then processor), Pass iff it is "0" or "1" and Fail
\* otherwise; otherwise Unknown.  A cmdline parameter with any other value
\* never yields Pass by itself.
C25_DeepCStatesCapped ==
  (Evaluated /\ result.kind = "DeepCStatesCapped") =>
    LET cmdline == Read(dataSource, "/proc/cmdline")
        intel == Read(dataSource,
                      "/sys/module/intel_idle/parameters/max_cstate")
        processor == Read(dataSource,
                          "/sys/module/processor/parameters/max_cstate")
        capped ==
          /\ Has(cmdline)
          /\ \/ CmdLineCarries(Value(cmdline), "cpuidle.off", <<"1">>)
             \/ CmdLineCarries(Value(cmdline), "intel_idle.max_cstate",
                               <<"1">>)
             \/ CmdLineCarries(Value(cmdline), "processor.max_cstate",
                               <<"1">>)
    IN  result.status =
          IF capped THEN "Pass"
          ELSE IF Has(intel)
            THEN IF Value(intel) \in {"0", "1"} THEN "Pass" ELSE "Fail"
          ELSE IF Has(processor)
            THEN IF Value(processor) \in {"0", "1"} THEN "Pass" ELSE "Fail"
          ELSE "Unknown"

\* C26: NoUnrelatedIrqsOnRt decision.  With a readable /proc/interrupts
\* whose header names the RT core, the status is Fail iff at least one
\* numeric IRQ row has a nonzero count in the RT core's column and a label
\* that does not contain the NIC name, and Pass otherwise; when the context
\* holds no NIC name no label contains it, so every such row with a nonzero
\* count is an offender.
C26_NoUnrelatedIrqsOnRt ==
  (Evaluated /\ result.kind = "NoUnrelatedIrqsOnRt") =>
    LET content == Read(dataSource, "/proc/interrupts")
        table == Value(content)
        column == CpuColumn(table.header, Value(checkContext.cpu))
        unrelated(row) ==
          \/ ~Has(checkContext.nic)
          \/ ~Has(row.label)
          \/ Value(checkContext.nic) \notin Value(row.label).names
        offends(row) ==
          /\ row.numeric
          /\ column \in 1 .. Len(row.counts)
          /\ row.counts[column] > 0
          /\ unrelated(row)
    IN  (Has(content) /\ column # 0) =>
          result.status =
            IF \E i \in 1 .. Len(table.rows) : offends(table.rows[i])
              THEN "Fail"
              ELSE "Pass"

\* C27: Consistent render snapshot.  During one reporter tick, from the
\* acquisition of the report mutex until the redraw is complete, no
\* ReportData the redraw reads is changed by a worker: no AddObservation of
\* the sender or of the receiver interleaves with a redraw.
C27_ConsistentRenderSnapshot ==
  [][(repPc = "render" /\ reportMutex = "reporter") =>
       (sendData' = sendData /\ receiveData' = receiveData)]_vars

\* C28: Every recorded observation is the difference of two consecutive
\* clock samples of the same worker.  Whenever a worker adds an observation
\* it is in an iteration after its first, and previous holds the clock
\* sample of the iteration before: each iteration ends by storing its own
\* sample in previous, and previous changes nowhere else once the loop has
\* begun.  The initial previous = 0 is never used in a recorded observation.
C28_ConsecutiveSamples ==
  [][/\ sendData' # sendData =>
          (sIndex >= 1 /\ sPrevious = sCurrent /\ sPrevious > 0)
     /\ receiveData' # receiveData => (rIndex >= 1 /\ rPrevious > 0)
     /\ sIndex' = sIndex + 1 => sPrevious' = sCurrent
     /\ rIndex' = rIndex + 1 => rPrevious' = now'
     /\ (sPrevious' # sPrevious /\ sPc # "init") => sIndex' = sIndex + 1
     /\ (rPrevious' # rPrevious /\ rPc # "configure") => rIndex' = rIndex + 1
     /\ (sCurrent' # sCurrent) => (sPc = "sample" /\ sCurrent' = now')]_vars

\* both workers have recorded an observation from two samples of their own
C28_Witness ==
  /\ Len(sendData) > 0 /\ Len(receiveData) > 0
  /\ sPrevious > 0 /\ rPrevious > 0

\* C29: Each sender iteration terminates.  For every send-sleep value the
\* program accepts and every pair of clock reading and previous deadline,
\* the catch-up loop performs finitely many steps: a sender that is in the
\* loop reaches its sleep and, after it, its next test of testRunning.
C29_SenderIterationTerminates ==
  (sPc = "catchup") ~> (sPc = "loop")

\* a thread is executing PrintReport
ReporterRenders == repPc = "render"
MainRenders == mainPc = "final"

\* C30: Renders never overlap.  PrintReport is executed by at most one
\* thread at a time: a live render runs in the reporter thread with the
\* report mutex held, and the orchestrator's final render starts only after
\* the reporter thread has terminated.
C30_RendersNeverOverlap ==
  /\ ~(ReporterRenders /\ MainRenders)
  /\ ReporterRenders => reportMutex = "reporter"
  /\ (MainRenders \/ finalRender) => (repPc = "done" /\ reportMutex = "free")
  /\ reportMutex = "reporter" <=> repPc \in {"render", "sleep"}

\* the reporter is inside a live render while the orchestrator waits to
\* join it
C30_Witness ==
  /\ ReporterRenders /\ reportMutex = "reporter"
  /\ mainPc = "joinReport" /\ ~liveReport

=============================================================================
